---- MODULE Spec2Model ----
(***************************************************************************)
(* State-machine model of python/PythonBinding.py: the interpreter session *)
(* (CcsJythonInterpreter), the per-command listener                        *)
(* (_CcsPythonExecutorThread) and the result handle (CcsExecutionResult).  *)
(*                                                                         *)
(* Text is a sequence of tokens.  A token is one character ("\n", "-", a   *)
(* digit, ":" ...) or one literal the code searches for as a unit          *)
(* ("doneExecution:", "startContent:", "java.lang.", "Exception" ...).     *)
(* A read chunk is a run of whole tokens, so a chunk boundary can fall     *)
(* between any two tokens: between "doneExecution:" and the id, inside the *)
(* id, before the closing newline, between "java.lang." and "Exception".   *)
(***************************************************************************)
EXTENDS Integers, Sequences, FiniteSets, TLC

(***************************************************************************)
(* Bounds of the model.                                                    *)
(***************************************************************************)
MaxCmds == 2
MaxTime == 2
MaxSetup == 1
MaxSplits == 1
MaxBody == 3
MaxText == 3
MaxCalls == 2
MaxArgs == 3
MaxMsgs == 3
MaxStageCalls == 1
MaxAxes == 2
MaxClock == 1200
MaxAssign == 2

(***************************************************************************)
(* Program constants.                                                      *)
(***************************************************************************)
RecvSize == 1024
RandHi == 1000

NL == "\n"

Min(a, b) == IF a < b THEN a ELSE b

(***************************************************************************)
(* Python string operations, on token sequences.                           *)
(***************************************************************************)
\* sub in s
Contains(s, sub) ==
    \E i \in 1..(Len(s) - Len(sub) + 1) : SubSeq(s, i, i + Len(sub) - 1) = sub

\* does old occur in s at position i
OccursAt(s, old, i) ==
    /\ i + Len(old) - 1 <= Len(s)
    /\ SubSeq(s, i, i + Len(old) - 1) = old

\* s.replace(old, ""): leftmost occurrences, one pass, not overlapping
RECURSIVE ReplaceFrom(_, _, _)
ReplaceFrom(s, old, i) ==
    IF i > Len(s) THEN << >>
    ELSE IF OccursAt(s, old, i) THEN ReplaceFrom(s, old, i + Len(old))
    ELSE <<s[i]>> \o ReplaceFrom(s, old, i + 1)

Replace(s, old) == ReplaceFrom(s, old, 1)

\* s.split('\n'): n newlines give n + 1 items, empty items included
RECURSIVE SplitFrom(_, _, _)
SplitFrom(s, i, cur) ==
    IF i > Len(s) THEN <<cur>>
    ELSE IF s[i] = NL THEN <<cur>> \o SplitFrom(s, i + 1, << >>)
    ELSE SplitFrom(s, i + 1, Append(cur, s[i]))

Split(s) == SplitFrom(s, 1, << >>)

\* str(n) for n >= 0
DigitChars == <<"0", "1", "2", "3", "4", "5", "6", "7", "8", "9">>

RECURSIVE IntToStr(_)
IntToStr(n) ==
    IF n < 10 THEN <<DigitChars[n + 1]>>
    ELSE IntToStr(n \div 10) \o <<DigitChars[(n % 10) + 1]>>

(***************************************************************************)
(* The fault pattern  r'.*java.lang.\w*Exception.*'  used with re.match on *)
(* one item of output.split('\n'): the item holds "java.lang." (any ten    *)
(* characters of that shape), then word characters only, then "Exception". *)
(***************************************************************************)
WordTokens == {DigitChars[i] : i \in 1..10} \cup {"w", "Exception"}

ReMatch(item) ==
    \E i \in 1..Len(item) : \E j \in (i + 1)..Len(item) :
        /\ item[i] = "java.lang."
        /\ item[j] = "Exception"
        /\ \A k \in (i + 1)..(j - 1) : item[k] \in WordTokens

\* the items of one chunk that line 121-123 appends to java_exceptions
ChunkFaults(output) == SelectSeq(Split(output), ReMatch)

(***************************************************************************)
(* The wire texts.                                                         *)
(***************************************************************************)
\* "doneExecution:" + self.threadId
Sentinel(threadId) == <<"doneExecution:">> \o threadId

\* "doneExecution:" + self.threadId + "\n"
SentinelLine(threadId) == Sentinel(threadId) \o <<NL>>

\* the threadId of sendInterpreterServer
MakeThreadId(ms, rnd) == IntToStr(ms) \o <<"-">> \o IntToStr(rnd)

\* Envelope with the id left out of the closing line
Envelope_NoEndId(threadId, content) ==
    <<"startContent:">> \o threadId \o <<NL>> \o content \o <<NL, "endContent:", NL>>

\* the content executePythonContent sends
Envelope(threadId, content) ==
    <<"startContent:">> \o threadId \o <<NL>> \o content
        \o <<NL, "endContent:">> \o threadId \o <<NL>>


\* what the remote interpreter reads as the id of an envelope: the text
\* between "startContent:" and the first newline
RECURSIVE FirstNL(_, _)
FirstNL(s, i) ==
    IF i > Len(s) THEN Len(s) + 1
    ELSE IF s[i] = NL THEN i
    ELSE FirstNL(s, i + 1)

EnvelopeId(env) == SubSeq(env, 2, FirstNL(env, 1) - 1)

(***************************************************************************)
(* Inputs.                                                                 *)
(***************************************************************************)
BoundedSeq(S, n) == UNION {[1..k -> S] : k \in 0..n}

NoName == <<"None">>

\* name argument of CcsJythonInterpreter
Names == {NoName, <<"t", NL, "s">>}

\* what the server sends on connect
Refusal == <<"Connection", "Refused">>

Greetings == {<<"w">>, Refusal, <<"w">> \o Refusal}

\* statements and script texts the caller sends
Statements == {<<"w">>}

FileTexts == {<<"w", NL, "w">>}

\* random.randint(0, 1000): the draws the model takes
RandSample == {1, 10}

RandValues == {r \in 0..RandHi : r \in RandSample}

\* what the remote interpreter prints for one command, before the sentinel
RemoteOutputs == {<<"w", NL>>, <<"java.lang.", "Exception", NL>>}

\* the unit test's listener: ids and response streams
ListenerIds == {<<"7">>, <<"4", "2">>}

StreamAlphabet == {"w", NL, "java.lang.", "Exception", "doneExecution:", "7", "2"}

\* socket_text of the unit test, two of its lines:
\*   org...CommandInvocationException: java.io.FileNotFoundException: ...
\*   \tat java.lang.Thread.run(Thread.java:745)
SocketText ==
    <<NL, "w", "Exception", ":", "java.io.", "w", "Exception", ":", "w", NL,
      "w", "java.lang.", "w", ".", "w", NL>>

(***************************************************************************)
(* Python values, and the conversions int(), float() and the string        *)
(* methods the parsers use.  These texts are sequences of single           *)
(* characters.                                                             *)
(***************************************************************************)
IntV(n) == [type |-> "int", value |-> n]

\* a float, as the pair <<m, e>> of the decimal number m * 10^e with m not
\* a multiple of ten (0.0 is <<0, 0>>)
FloatV(me) == [type |-> "float", value |-> me]

BoolV(b) == [type |-> "bool", value |-> b]

StrV(s) == [type |-> "str", value |-> s]

ListV(items) == [type |-> "list", value |-> items]

NoneV == [type |-> "None", value |-> "None"]

Whitespace == {" ", NL, "\t"}

DigitSet == {DigitChars[i] : i \in 1..10}

DigitVal(c) == CHOOSE d \in 0..9 : DigitChars[d + 1] = c

\* the number a run of decimal digits denotes (0 for the empty run)
RECURSIVE DigitsValue(_)
DigitsValue(s) ==
    IF s = << >> THEN 0
    ELSE 10 * DigitsValue(SubSeq(s, 1, Len(s) - 1)) + DigitVal(s[Len(s)])

\* str.rstrip()
RECURSIVE RStrip(_)
RStrip(s) ==
    IF s # << >> /\ s[Len(s)] \in Whitespace
    THEN RStrip(SubSeq(s, 1, Len(s) - 1)) ELSE s

\* str.lstrip()
RECURSIVE LStrip(_)
LStrip(s) ==
    IF s # << >> /\ s[1] \in Whitespace THEN LStrip(Tail(s)) ELSE s

\* str.strip(): int() and float() ignore whitespace around the number
Strip(s) == LStrip(RStrip(s))

\* s.find(c) != -1
Find(s, c) == \E i \in 1..Len(s) : s[i] = c

\* the first position of s that holds a character of set cs, 0 if none does
FirstIndex(s, cs) ==
    IF \E i \in 1..Len(s) : s[i] \in cs
    THEN CHOOSE i \in 1..Len(s) :
            s[i] \in cs /\ \A j \in 1..(i - 1) : s[j] \notin cs
    ELSE 0

\* s.startswith(prefix)
StartsWith(s, prefix) ==
    Len(prefix) <= Len(s) /\ SubSeq(s, 1, Len(prefix)) = prefix

\* s.split(sep): the items between the occurrences of sep, left to right
RECURSIVE SplitByFrom(_, _, _, _)
SplitByFrom(s, sep, i, cur) ==
    IF i > Len(s) THEN <<cur>>
    ELSE IF OccursAt(s, sep, i)
         THEN <<cur>> \o SplitByFrom(s, sep, i + Len(sep), << >>)
    ELSE SplitByFrom(s, sep, i + 1, Append(cur, s[i]))

SplitBy(s, sep) == SplitByFrom(s, sep, 1, << >>)

\* a number without its sign
Unsigned(s) == IF s # << >> /\ s[1] \in {"+", "-"} THEN Tail(s) ELSE s

Negative(s) == s # << >> /\ s[1] = "-"

AllDigits(s) == \A i \in 1..Len(s) : s[i] \in DigitSet

\* int(token) does not raise ValueError: whitespace, a sign, digits
IntAccepts(token) ==
    LET body == Unsigned(Strip(token)) IN body # << >> /\ AllDigits(body)

\* int(token)
IntOf(token) ==
    LET t == Strip(token) IN
    IF Negative(t) THEN 0 - DigitsValue(Unsigned(t)) ELSE DigitsValue(Unsigned(t))

\* the parts of a decimal floating-point text: the digits before and after
\* the point, and the exponent text (after the first e or E)
FloatParts(token) ==
    LET t == Unsigned(Strip(token))
        k == FirstIndex(t, {"e", "E"})
        mant == IF k = 0 THEN t ELSE SubSeq(t, 1, k - 1)
        d == FirstIndex(mant, {"."})
    IN  [hasExp |-> k # 0,
         expo |-> IF k = 0 THEN << >> ELSE SubSeq(t, k + 1, Len(t)),
         ip |-> IF d = 0 THEN mant ELSE SubSeq(mant, 1, d - 1),
         fp |-> IF d = 0 THEN << >> ELSE SubSeq(mant, d + 1, Len(mant))]

\* float(token) does not raise ValueError for a token that holds '.', 'e'
\* or 'E' (the words inf, infinity and nan, which float() also takes, hold
\* none of the three)
FloatAccepts(token) ==
    LET p == FloatParts(token) IN
    /\ AllDigits(p.ip)
    /\ AllDigits(p.fp)
    /\ Len(p.ip) + Len(p.fp) > 0
    /\ p.hasExp => (Unsigned(p.expo) # << >> /\ AllDigits(Unsigned(p.expo)))

\* m * 10^e with the trailing zeros of m moved into e
RECURSIVE Normalize(_, _)
Normalize(m, e) ==
    IF m = 0 THEN <<0, 0>>
    ELSE IF m % 10 = 0 THEN Normalize(m \div 10, e + 1)
    ELSE <<m, e>>

\* float(token)
FloatOf(token) ==
    LET p == FloatParts(token)
        m == DigitsValue(p.ip \o p.fp)
        x == IF Negative(p.expo) THEN 0 - DigitsValue(Unsigned(p.expo))
             ELSE DigitsValue(Unsigned(p.expo))
    IN  Normalize(IF Negative(Strip(token)) THEN 0 - m ELSE m, x - Len(p.fp))

(***************************************************************************)
(* SubsystemDispatcher: the parser of result text.                         *)
(***************************************************************************)
\* SubsystemDispatcher._cast
SubsystemDispatcher_cast(token) ==
    IF Find(token, ".") \/ Find(token, "e") \/ Find(token, "E")
    THEN IF FloatAccepts(token) THEN FloatV(FloatOf(token))
         ELSE IF token = <<"T", "r", "u", "e">> THEN BoolV(TRUE)
         ELSE IF token = <<"F", "a", "l", "s", "e">> THEN BoolV(FALSE)
         ELSE StrV(token)
    ELSE IF IntAccepts(token) THEN IntV(IntOf(token))
         ELSE IF token = <<"T", "r", "u", "e">> THEN BoolV(TRUE)
         ELSE IF token = <<"F", "a", "l", "s", "e">> THEN BoolV(FALSE)
         ELSE StrV(token)

\* SubsystemDispatcher.default_parser; data[1:-1] is SubSeq(data, 2, Len - 1)
RECURSIVE default_parser(_)
default_parser(ccs_socket_output) ==
    LET data == RStrip(ccs_socket_output) IN
    IF StartsWith(data, <<"[">>)
    THEN LET tokens == SplitBy(SubSeq(data, 2, Len(data) - 1), <<",", " ">>) IN
         ListV([i \in 1..Len(tokens) |-> default_parser(tokens[i])])
    ELSE SubsystemDispatcher_cast(data)

(***************************************************************************)
(* siteUtils: cast, Parfile and png_data_product.                          *)
(***************************************************************************)
NoneText == <<"N", "o", "n", "e">>

\* siteUtils.cast
cast(value) ==
    IF value = NoneText THEN NoneV
    ELSE IF ~Find(value, ".") /\ ~Find(value, "e")
    THEN IF IntAccepts(value) THEN IntV(IntOf(value)) ELSE StrV(value)
    ELSE IF FloatAccepts(value) THEN FloatV(FloatOf(value)) ELSE StrV(value)

\* Parfile.__init__: the items of the section, each value cast
Parfile(section) == [key \in DOMAIN section |-> cast(section[key])]

\* n zeros
Zeros(n) == [i \in 1..n |-> "0"]

\* "%s" % n for an int
IntText(n) == IF n < 0 THEN <<"-">> \o IntToStr(0 - n) ELSE IntToStr(n)

\* "%s" % x for the float m * 10^e, m > 0: positional when the exponent of
\* the first digit is in -4..15, with an exponent of two digits otherwise
FloatDigitsText(m, e) ==
    LET digits == IntToStr(m)
        n == Len(digits)
        x == n + e - 1
    IN  IF x >= -4 /\ x < 16
        THEN IF e >= 0 THEN digits \o Zeros(e) \o <<".", "0">>
             ELSE IF n + e > 0
             THEN SubSeq(digits, 1, n + e) \o <<".">> \o SubSeq(digits, n + e + 1, n)
             ELSE <<"0", ".">> \o Zeros(0 - (n + e)) \o digits
        ELSE <<digits[1]>>
                \o (IF n > 1 THEN <<".">> \o SubSeq(digits, 2, n) ELSE << >>)
                \o <<"e", IF x < 0 THEN "-" ELSE "+">>
                \o (IF (IF x < 0 THEN 0 - x ELSE x) < 10 THEN <<"0">> ELSE << >>)
                \o IntToStr(IF x < 0 THEN 0 - x ELSE x)

\* "%s" % value, as the test writes the values of a section
PyStr(v) ==
    IF v.type = "int" THEN IntText(v.value)
    ELSE IF v.type = "float"
    THEN IF v.value[1] = 0 THEN <<"0", ".", "0">>
         ELSE IF v.value[1] < 0
         THEN <<"-">> \o FloatDigitsText(0 - v.value[1], v.value[2])
         ELSE FloatDigitsText(v.value[1], v.value[2])
    ELSE v.value

\* len('.png')
PngLen == 4

\* len(file_prefix) without the test pngfile.startswith(my_prefix)
FilePrefixLen_NoStartsWith(pngfile, lsst_num, run) ==
    IF run.set THEN Len(lsst_num \o <<"_">> \o run.value) ELSE Len(lsst_num)

\* len(file_prefix): run is os.environ's LCATR_RUN_NUMBER, KeyError (and
\* file_prefix left as lsst_num) when it is not set
FilePrefixLen(pngfile, lsst_num, run) ==
    IF run.set /\ StartsWith(pngfile, lsst_num \o <<"_">> \o run.value)
    THEN Len(lsst_num \o <<"_">> \o run.value)
    ELSE Len(lsst_num)

\* s[a:-b] for a >= 0, b > 0
Slice(s, a, b) == SubSeq(s, a + 1, Len(s) - b)

\* siteUtils.png_data_product
png_data_product(pngfile, lsst_num, run) ==
    Slice(pngfile, FilePrefixLen(pngfile, lsst_num, run) + 1, PngLen)

(***************************************************************************)
(* State.                                                                  *)
(***************************************************************************)
VARIABLES
    caller,     \* the foreground thread: where it is in the API call it makes
    conn,       \* the arguments and the greeting of the connection made
    now,        \* the last reading of time.time(), in milliseconds, rounded
    sockState,  \* the connection: "none", "open", "error" (recv and send raise)
    sockIn,     \* text the remote has sent and no recv has returned yet
    sent,       \* the payload of every s.send, in order
    served,     \* number of envelopes the remote interpreter has answered
    splits,     \* number of recv calls that returned less than was waiting
    lst,        \* the _CcsPythonExecutorThread objects, by handle
    hist,       \* per handle: what was asked, what the listener read, what
                \* the caller got back
    fn,         \* one call of a function of the library: its name, its
                \* argument, and its result once it has returned
    ccs,        \* a ccs_scripting_tools.CcsSubsystems object: whether its
                \* constructor has run, how it ended, the attributes set
    deco,       \* a SubsystemDecorator: its logger, and the call in progress
    logged,     \* the messages given to logger.info, in order
    received,   \* the commands the wrapped subsystem received, in order
    stage,      \* the thread that calls a method of TS8Stage.Stage: the
                \* method, its arguments and locals, where it is, how it ended
    replies,    \* the fields of the _ReplyHandler
    worker,     \* the commands sent to the worker subsystem, in order
    clock,      \* datetime.now(), in units of 1/20 second
    bus         \* the status messages delivered so far: how many, and the
                \* latest of each type

\* the state of the interpreter session
sessionVars == <<caller, conn, now, sockState, sockIn, sent, served, splits, lst, hist>>

\* the state of a call of a library function
pureVars == <<fn>>

\* the state of the scripting tools
toolVars == <<ccs, deco, logged, received>>

\* the state of the stage control
stageVars == <<stage, replies, worker, clock, bus>>

\* what the session does not touch
otherVars == <<pureVars, toolVars, stageVars>>

vars == <<sessionVars, otherVars>>

Handles == 1..Len(lst)

\* int(round(time.time() * 1000)): the clock does not go back
ClockValues == now..Min(now + 1, MaxTime)

\* NewListener with running not yet set when the thread is started
NewListener_NotRunning(threadId) ==
    [threadId |-> threadId, running |-> FALSE, pc |-> "loop",
     executionOutput |-> << >>, java_exceptions |-> << >>]

\* a listener whose thread has started: __init__, running set (line 110),
\* the thread at the top of its loop with an empty executionOutput (line 118)
NewListener(threadId) ==
    [threadId |-> threadId, running |-> TRUE, pc |-> "loop",
     executionOutput |-> << >>, java_exceptions |-> << >>]

\* the record kept for a command: the content sent, whether the call was
\* synchronous, all the listener read (recvd), the chunk it stopped on,
\* whether a blocking call on it has returned and with what text (got),
\* whether the caller has asked getOutput for it
NewHist(content, sync) ==
    [content |-> content, sync |-> sync, recvd |-> << >>,
     stopChunk |-> << >>, returned |-> FALSE, asked |-> FALSE, got |-> << >>]

Caller(pc, h, todo, sync, exc) ==
    [pc |-> pc, h |-> h, todo |-> todo, sync |-> sync, exc |-> exc]

(***************************************************************************)
(* _CcsPythonExecutorThread.listenToSocketOutput, the background thread.   *)
(***************************************************************************)
\* AfterChunk with line 129 left out: the loop ends, running stays True
AfterChunk_NoStop(l, output) ==
    LET done == Contains(output, Sentinel(l.threadId)) IN
    [l EXCEPT
        !.java_exceptions = l.java_exceptions \o ChunkFaults(output),
        !.executionOutput = l.executionOutput \o output,
        !.pc = IF done THEN "strip" ELSE "loop"]

\* AfterChunk with the sentinel looked for in the whole of executionOutput,
\* not in the chunk
AfterChunk_ScanBuffer(l, output) ==
    LET done == Contains(l.executionOutput \o output, Sentinel(l.threadId)) IN
    [l EXCEPT
        !.java_exceptions = l.java_exceptions \o ChunkFaults(output),
        !.executionOutput = l.executionOutput \o output,
        !.running = IF done THEN FALSE ELSE l.running,
        !.pc = IF done THEN "strip" ELSE "loop"]

\* AfterChunk with a recorded fault line ending the loop as the sentinel does
AfterChunk_StopOnFault(l, output) ==
    LET done == Contains(output, Sentinel(l.threadId))
        fault == ChunkFaults(output) # << >> IN
    [l EXCEPT
        !.java_exceptions = l.java_exceptions \o ChunkFaults(output),
        !.executionOutput = l.executionOutput \o output,
        !.running = IF done \/ fault THEN FALSE ELSE l.running,
        !.pc = IF done THEN "strip" ELSE "loop"]

\* AfterChunk with line 127 as an assignment, not +=
AfterChunk_Overwrite(l, output) ==
    LET done == Contains(output, Sentinel(l.threadId)) IN
    [l EXCEPT
        !.java_exceptions = l.java_exceptions \o ChunkFaults(output),
        !.executionOutput = output,
        !.running = IF done THEN FALSE ELSE l.running,
        !.pc = IF done THEN "strip" ELSE "loop"]

\* lines 121-129 applied to one chunk: the listener after the chunk
AfterChunk(l, output) ==
    LET done == Contains(output, Sentinel(l.threadId)) IN
    [l EXCEPT
        !.java_exceptions = l.java_exceptions \o ChunkFaults(output),
        !.executionOutput = l.executionOutput \o output,
        !.running = IF done THEN FALSE ELSE l.running,
        !.pc = IF done THEN "strip" ELSE "loop"]

\* lines 119-129: one pass of the loop, recv returning the first n tokens
\* of what is waiting: all of it, or (at most MaxSplits times) less
L_Recv(h, n) ==
    /\ lst[h].pc = "loop"
    /\ lst[h].running
    /\ sockState = "open"
    /\ n \in 1..Min(Len(sockIn), RecvSize)
    /\ n < Len(sockIn) => splits < MaxSplits
    /\ splits' = IF n < Len(sockIn) THEN splits + 1 ELSE splits
    /\ LET output == SubSeq(sockIn, 1, n) IN
        /\ sockIn' = SubSeq(sockIn, n + 1, Len(sockIn))
        /\ lst' = [lst EXCEPT ![h] = AfterChunk(lst[h], output)]
        /\ hist' = [hist EXCEPT
                ![h].recvd = hist[h].recvd \o output,
                ![h].stopChunk =
                    IF Contains(output, Sentinel(lst[h].threadId))
                    THEN output ELSE hist[h].stopChunk]
    /\ UNCHANGED <<otherVars, caller, conn, now, sockState, sent, served>>

\* line 120 raising socket.error: the thread ends with the exception
L_RecvError(h) ==
    /\ lst[h].pc = "loop"
    /\ sockState = "error"
    /\ lst' = [lst EXCEPT ![h].pc = "died"]
    /\ UNCHANGED <<otherVars, caller, conn, now, sockState, sockIn, sent, served, splits, hist>>

\* line 130, then the loop test fails and the thread ends (line 131)
L_Strip(h) ==
    /\ lst[h].pc = "strip"
    /\ lst' = [lst EXCEPT
            ![h].executionOutput =
                Replace(lst[h].executionOutput, SentinelLine(lst[h].threadId)),
            ![h].pc = "exit"]
    /\ UNCHANGED <<otherVars, caller, conn, now, sockState, sockIn, sent, served, splits, hist>>

(***************************************************************************)
(* CcsJythonInterpreter, the foreground thread.                            *)
(***************************************************************************)
\* how many commands a behaviour holds: MaxCmds, or, when the behaviour is
\* one call of syncScriptExecution or of ccsProducer with the setup
\* commands of a CcsSetup, the commands of that call: a command before the
\* script call, a command for each assignment, the two path commands, the
\* script
CmdLimit ==
    IF fn.name \in {"syncScriptExecution", "ccsProducer"}
    THEN MaxAssign + 4 ELSE MaxCmds

\* sendInterpreterServer up to outputThread.start(): lines 94-96, 110-111
Spawn(ms, content, rnd, sync, rest) ==
    /\ Len(lst) < CmdLimit
    /\ now' = ms
    /\ lst' = Append(lst, NewListener(MakeThreadId(ms, rnd)))
    /\ hist' = Append(hist, NewHist(content, sync))
    /\ caller' = Caller("send", Len(lst) + 1, rest, sync, "none")

\* name.replace("\n", "")
InitCommand(name) == <<"initializeInterpreter ">> \o Replace(name, <<NL>>)

\* Refused with == for in
Refused_ExactMatch(connectionResult) == connectionResult = <<"Connection", "Refused">>

\* line 58: "ConnectionRefused" in connectionResult
Refused(connectionResult) == Contains(connectionResult, <<"Connection", "Refused">>)

\* __init__ and _establishSocketConnection: connectionResult is what the
\* first recv returns, up to RecvSize of what the server sent
Construct(name, greeting, ms, rnd) ==
    /\ caller.pc = "new"
    /\ sockState' = "open"
    /\ sockIn' = SubSeq(greeting, Min(Len(greeting), RecvSize) + 1, Len(greeting))
    /\ conn' = [name |-> name,
                connectionResult |-> SubSeq(greeting, 1, Min(Len(greeting), RecvSize))]
    /\ IF Refused(SubSeq(greeting, 1, Min(Len(greeting), RecvSize)))
       THEN /\ caller' = Caller("raised", 0, << >>, FALSE, "CcsException")
            /\ UNCHANGED <<now, lst, hist>>
       ELSE IF name # NoName
       THEN Spawn(ms, InitCommand(name), rnd, TRUE, << >>)
       ELSE /\ caller' = Caller("idle", 0, << >>, FALSE, "none")
            /\ UNCHANGED <<now, lst, hist>>
    /\ UNCHANGED <<otherVars, sent, served, splits>>

\* aSyncExecution (aSyncScriptExecution: the content is the text of a file)
ASyncExecution(ms, content, rnd) ==
    /\ caller.pc = "idle"
    /\ Spawn(ms, content, rnd, FALSE, << >>)
    /\ UNCHANGED <<otherVars, conn, sockState, sockIn, sent, served, splits>>

\* syncExecution
SyncExecution(ms, content, rnd) ==
    /\ caller.pc = "idle"
    /\ Spawn(ms, content, rnd, TRUE, << >>)
    /\ UNCHANGED <<otherVars, conn, sockState, sockIn, sent, served, splits>>

\* syncScriptExecution: the setup commands, then the text of the file
SyncScriptExecution(ms, setup, fileContent, rnd) ==
    /\ caller.pc = "idle"
    /\ Len(lst) + Len(setup) + 1 <= CmdLimit
    /\ LET all == setup \o <<fileContent>> IN
        Spawn(ms, Head(all), rnd, TRUE, Tail(all))
    /\ UNCHANGED <<otherVars, conn, sockState, sockIn, sent, served, splits>>

\* executePythonContent lines 112-114: the envelope, in one send
WriteEnvelope ==
    /\ caller.pc = "send"
    /\ sockState # "error"
    /\ sent' = Append(sent, Envelope(lst[caller.h].threadId, hist[caller.h].content))
    /\ caller' = [caller EXCEPT !.pc = IF caller.sync THEN "wait" ELSE "idle"]
    /\ UNCHANGED <<otherVars, conn, now, sockState, sockIn, served, splits, lst, hist>>

\* line 113 on a failed socket: socket.error reaches the caller
WriteFails ==
    /\ caller.pc = "send"
    /\ sockState = "error"
    /\ caller' = [caller EXCEPT !.pc = "raised", !.exc = "socket.error"]
    /\ UNCHANGED <<otherVars, conn, now, sockState, sockIn, sent, served, splits, lst, hist>>

\* CcsExecutionResult.getOutput called on a handle the caller holds (the
\* caller asks once for each handle)
GetOutput(h) ==
    /\ caller.pc = "idle"
    /\ h \in Handles
    /\ ~hist[h].asked
    /\ hist' = [hist EXCEPT ![h].asked = TRUE]
    /\ caller' = Caller("wait", h, << >>, TRUE, "none")
    /\ UNCHANGED <<otherVars, conn, now, sockState, sockIn, sent, served, splits, lst>>

\* StillWaiting of a getOutput that gives up when the listener thread has
\* ended
StillWaiting_WhileAlive(l) == l.running /\ l.pc # "died"

\* StillWaiting of a getOutput that does not wait
StillWaiting_Never(l) == FALSE

\* whether the sleep-poll loop of getOutput (lines 27-28) goes on
StillWaiting(l) == l.running

\* what getOutput hands back (line 29) once the loop has ended
Returned(hs, h) ==
    [hs EXCEPT ![h].returned = TRUE, ![h].got = lst[h].executionOutput]

\* AfterWait of a syncExecution that raises when the listener recorded a fault
AfterWait_RaiseOnFault(c, l) ==
    IF l.java_exceptions # << >>
    THEN [c EXCEPT !.pc = "raised", !.exc = "RuntimeError"]
    ELSE [c EXCEPT !.pc = "idle"]

\* syncExecution lines 67-68: the caller once getOutput has returned for
\* listener l
AfterWait(c, l) == [c EXCEPT !.pc = "idle"]

\* getOutput returns; the blocking call that made it returns too
PollReturn ==
    /\ caller.pc = "wait"
    /\ ~StillWaiting(lst[caller.h])
    /\ caller.todo = << >>
    /\ hist' = Returned(hist, caller.h)
    /\ caller' = AfterWait(caller, lst[caller.h])
    /\ UNCHANGED <<otherVars, conn, now, sockState, sockIn, sent, served, splits, lst>>

\* syncScriptExecution: one command is done, the next one is sent
ScriptNext(ms, rnd) ==
    /\ caller.pc = "wait"
    /\ ~StillWaiting(lst[caller.h])
    /\ caller.todo # << >>
    /\ Len(lst) < CmdLimit
    /\ now' = ms
    /\ lst' = Append(lst, NewListener(MakeThreadId(ms, rnd)))
    /\ hist' = Append(Returned(hist, caller.h), NewHist(Head(caller.todo), TRUE))
    /\ caller' = Caller("send", Len(lst) + 1, Tail(caller.todo), TRUE, "none")
    /\ UNCHANGED <<otherVars, conn, sockState, sockIn, sent, served, splits>>

(***************************************************************************)
(* The environment: the remote interpreter and the connection.             *)
(***************************************************************************)
\* the remote interpreter runs the next envelope: its output, then the
\* sentinel line of the id it read from the envelope
RemoteReply(out) ==
    /\ sockState = "open"
    /\ served < Len(sent)
    /\ served' = served + 1
    /\ sockIn' = sockIn \o out \o SentinelLine(EnvelopeId(sent[served + 1]))
    /\ UNCHANGED <<otherVars, caller, conn, now, sockState, sent, splits, lst, hist>>

\* the connection fails: recv and send raise socket.error from now on
SocketFail ==
    /\ sockState = "open"
    /\ sockState' = "error"
    /\ UNCHANGED <<otherVars, caller, conn, now, sockIn, sent, served, splits, lst, hist>>

(***************************************************************************)
(* The session: one caller, one socket, a listener per command.            *)
(***************************************************************************)
\* no call of a library function is in progress
PureIdle == fn = [name |-> "none"]

\* before the session is constructed
SessionIdle ==
    /\ caller = Caller("new", 0, << >>, FALSE, "none")
    /\ conn = [name |-> NoName, connectionResult |-> << >>]
    /\ now = 1
    /\ sockState = "none"
    /\ sockIn = << >>
    /\ sent = << >>
    /\ served = 0
    /\ splits = 0
    /\ lst = << >>
    /\ hist = << >>

\* no scripting tool has been constructed
ToolsIdle ==
    /\ ccs = [pc |-> "none"]
    /\ deco = [pc |-> "none"]
    /\ logged = << >>
    /\ received = << >>

\* no Stage has been constructed
StageIdle ==
    /\ stage = [pc |-> "none"]
    /\ replies = [pc |-> "none"]
    /\ worker = << >>
    /\ clock = 0
    /\ bus = [n |-> 0]

Init ==
    /\ SessionIdle
    /\ PureIdle
    /\ ToolsIdle
    /\ StageIdle

Next ==
    \/ \E name \in Names, greeting \in Greetings, ms \in ClockValues, rnd \in RandValues :
            Construct(name, greeting, ms, rnd)
    \/ \E content \in Statements, ms \in ClockValues, rnd \in RandValues :
            ASyncExecution(ms, content, rnd)
    \/ \E content \in Statements, ms \in ClockValues, rnd \in RandValues :
            SyncExecution(ms, content, rnd)
    \/ \E setup \in BoundedSeq(Statements, MaxSetup), f \in FileTexts,
          ms \in ClockValues, rnd \in RandValues :
            SyncScriptExecution(ms, setup, f, rnd)
    \/ WriteEnvelope
    \/ WriteFails
    \/ \E h \in Handles : GetOutput(h)
    \/ PollReturn
    \/ \E ms \in ClockValues, rnd \in RandValues : ScriptNext(ms, rnd)
    \/ \E out \in RemoteOutputs : RemoteReply(out)
    \/ SocketFail
    \/ \E h \in Handles, n \in 1..Len(sockIn) : L_Recv(h, n)
    \/ \E h \in Handles : L_RecvError(h)
    \/ \E h \in Handles : L_Strip(h)

Spec == Init /\ [][Next]_vars

(***************************************************************************)
(* The session used with serialized sends only: the caller issues a        *)
(* command when every command before it has been waited for, by            *)
(* syncExecution, by syncScriptExecution, or by getOutput on the handle    *)
(* of an asynchronous send.                                                *)
(***************************************************************************)
\* getOutput has returned for every command issued so far
SerialSend == \A h \in Handles : hist[h].returned

NextSerial ==
    \/ \E name \in Names, greeting \in Greetings, ms \in ClockValues, rnd \in RandValues :
            Construct(name, greeting, ms, rnd)
    \/ \E content \in Statements, ms \in ClockValues, rnd \in RandValues :
            SerialSend /\ ASyncExecution(ms, content, rnd)
    \/ \E content \in Statements, ms \in ClockValues, rnd \in RandValues :
            SerialSend /\ SyncExecution(ms, content, rnd)
    \/ \E setup \in BoundedSeq(Statements, MaxSetup), f \in FileTexts,
          ms \in ClockValues, rnd \in RandValues :
            SerialSend /\ SyncScriptExecution(ms, setup, f, rnd)
    \/ WriteEnvelope
    \/ WriteFails
    \/ \E h \in Handles : GetOutput(h)
    \/ PollReturn
    \/ \E ms \in ClockValues, rnd \in RandValues : ScriptNext(ms, rnd)
    \/ \E out \in RemoteOutputs : RemoteReply(out)
    \/ SocketFail
    \/ \E h \in Handles, n \in 1..Len(sockIn) : L_Recv(h, n)
    \/ \E h \in Handles : L_RecvError(h)
    \/ \E h \in Handles : L_Strip(h)

SpecSerial == Init /\ [][NextSerial]_vars

(***************************************************************************)
(* One command in flight at a time, sent with syncExecution, with the      *)
(* threads scheduled fairly: the listener thread goes on when it can read, *)
(* the caller's poll of running (time.sleep(0.1), lines 27-28) comes       *)
(* round.  The remote interpreter is free to answer or not, and the peer   *)
(* can close the connection.                                               *)
(***************************************************************************)
\* the peer closes the connection; sockState "closed" is the connection
\* once all that the peer sent has been read: recv returns '' from now on
PeerClose ==
    /\ sockState = "open"
    /\ sockIn = << >>
    /\ sockState' = "closed"
    /\ UNCHANGED <<otherVars, caller, conn, now, sockIn, sent, served, splits, lst, hist>>

\* lines 119-129 with recv returning '': no item matches, no sentinel,
\* nothing is added to executionOutput, the loop goes round
L_RecvEmpty(h) ==
    /\ lst[h].pc = "loop"
    /\ lst[h].running
    /\ sockState = "closed"
    /\ lst' = [lst EXCEPT ![h] = AfterChunk(lst[h], << >>)]
    /\ UNCHANGED <<otherVars, caller, conn, now, sockState, sockIn, sent, served, splits, hist>>

\* a step of a listener thread
ListenerStep ==
    \/ \E h \in Handles, n \in 1..Len(sockIn) : L_Recv(h, n)
    \/ \E h \in Handles : L_RecvError(h)
    \/ \E h \in Handles : L_RecvEmpty(h)
    \/ \E h \in Handles : L_Strip(h)

NextLive ==
    \/ \E name \in Names, greeting \in Greetings, ms \in ClockValues, rnd \in RandValues :
            Construct(name, greeting, ms, rnd)
    \/ \E content \in Statements, ms \in ClockValues, rnd \in RandValues :
            SerialSend /\ SyncExecution(ms, content, rnd)
    \/ WriteEnvelope
    \/ WriteFails
    \/ PollReturn
    \/ \E out \in RemoteOutputs : RemoteReply(out)
    \/ SocketFail
    \/ PeerClose
    \/ ListenerStep

SpecLive ==
    /\ Init
    /\ [][NextLive]_vars
    /\ WF_vars(ListenerStep)
    /\ WF_vars(PollReturn)

(***************************************************************************)
(* ccsTools: CcsSetup, an OrderedDict of variable assignments, and         *)
(* ccsProducer.  A command is a sequence of tokens.                        *)
(***************************************************************************)
\* OrderedDict.__setitem__: a new key goes to the end, a key that is there
\* keeps its place and takes the new value
OrderedDict_set(od, key, value) ==
    IF \E i \in 1..Len(od) : od[i].key = key
    THEN [i \in 1..Len(od) |->
            IF od[i].key = key THEN [key |-> key, value |-> value] ELSE od[i]]
    ELSE Append(od, [key |-> key, value |-> value])

\* CcsSetup.__init__ and _read: the assignments self[key] = value, in order
RECURSIVE CcsSetup_init(_)
CcsSetup_init(assignments) ==
    IF assignments = << >> THEN << >>
    ELSE LET last == assignments[Len(assignments)] IN
         OrderedDict_set(CcsSetup_init(SubSeq(assignments, 1, Len(assignments) - 1)),
                         last.key, last.value)

\* siteUtils.pythonDir()
PythonDir == "dir/python"

\* CcsSetup_call with the items listed last one first
CcsSetup_call_Reversed(od) ==
    [i \in 1..Len(od) |-> <<od[Len(od) + 1 - i].key, " = ", od[Len(od) + 1 - i].value>>]
        \o << <<"import sys">>, <<"sys.path.append(\"", PythonDir, "\")">> >>

\* CcsSetup.__call__
CcsSetup_call(od) ==
    [i \in 1..Len(od) |-> <<od[i].key, " = ", od[i].value>>]
        \o << <<"import sys">>, <<"sys.path.append(\"", PythonDir, "\")">> >>

\* the assignments a CcsSetup is built from: one or more, a key assigned
\* twice among them
SetupItems ==
    {[key |-> "ts", value |-> "'ts'"], [key |-> "ts", value |-> "'t2'"],
     [key |-> "archon", value |-> "'archon'"]}

SetupAssignments ==
    {a \in BoundedSeq(SetupItems, MaxAssign) :
        /\ a # << >>
        /\ a[1] = [key |-> "ts", value |-> "'ts'"]}

\* the call in progress, with the assignments of its CcsSetup
ScriptCall(name, assignments) ==
    [name |-> name, arg |-> assignments, pc |-> "call",
     result |-> [log |-> << >>, exc |-> "none", message |-> << >>]]

\* the random draws of these behaviours, and their clock: a millisecond or
\* more passes between two commands (getOutput sleeps 0.1 s at a time)
ScriptRands == {r \in RandValues : r = 1}

ScriptClock == now + 1

\* what the remote interpreter prints for a script: also two fault lines
ScriptOutputs ==
    RemoteOutputs
        \cup {<<"java.lang.", "Exception", NL, "java.lang.", "w", "Exception", NL>>}

\* the remote interpreter runs the next envelope; an assignment, an import
\* or a statement prints one line, a script any of ScriptOutputs
ScriptReply(out) ==
    /\ served < Len(sent)
    /\ hist[served + 1].content \notin FileTexts => out = <<"w", NL>>
    /\ RemoteReply(out)

\* syncScriptExecution(fileName, setup())
CallScript(ms, f, rnd) ==
    SyncScriptExecution(ms, CcsSetup_call(CcsSetup_init(fn.arg)), f, rnd)

\* one call of syncScriptExecution on a session that may have an
\* asynchronous command in flight
InitScript ==
    /\ SessionIdle
    /\ ToolsIdle
    /\ StageIdle
    /\ \E a \in SetupAssignments : fn = ScriptCall("syncScriptExecution", a)

NextScript ==
    \/ \E greeting \in Greetings, rnd \in ScriptRands :
            Construct(NoName, greeting, now, rnd)
    \/ \E content \in Statements, rnd \in ScriptRands :
            Len(lst) = 0 /\ ASyncExecution(ScriptClock, content, rnd)
    \/ \E f \in FileTexts, rnd \in ScriptRands :
            (\A h \in Handles : ~hist[h].sync) /\ CallScript(ScriptClock, f, rnd)
    \/ WriteEnvelope
    \/ WriteFails
    \/ PollReturn
    \/ \E rnd \in ScriptRands : ScriptNext(ScriptClock, rnd)
    \/ \E out \in ScriptOutputs : ScriptReply(out)
    \/ SocketFail
    \/ \E h \in Handles, n \in 1..Len(sockIn) : L_Recv(h, n)
    \/ \E h \in Handles : L_RecvError(h)
    \/ \E h \in Handles : L_Strip(h)

SpecScript == InitScript /\ [][NextScript]_vars

\* ccsProducer, line 129: CcsJythonInterpreter("ts")
ProducerName == <<"ts">>

\* ccsProducer, lines 133-134: the interpreter has been initialized
P_Script(ms, f, rnd) ==
    /\ Len(lst) = 1
    /\ hist[1].returned
    /\ CallScript(ms, f, rnd)

\* the script command of ccsProducer has been sent and waited for; its
\* handle is the last one
ScriptDone ==
    /\ Len(lst) = Len(CcsSetup_init(fn.arg)) + 4
    /\ caller.pc = "idle"
    /\ hist[Len(lst)].returned

\* ccsProducer, lines 135-137: result.getOutput() once more, written to
\* the log file
P_Log ==
    /\ fn.name = "ccsProducer"
    /\ fn.pc = "call"
    /\ ScriptDone
    /\ ~StillWaiting(lst[Len(lst)])
    /\ fn' = [fn EXCEPT !.pc = "logged",
                        !.result.log = lst[Len(lst)].executionOutput]
    /\ UNCHANGED <<sessionVars, toolVars, stageVars>>

\* '\n'.join(items)
RECURSIVE JoinLines(_)
JoinLines(items) ==
    IF items = << >> THEN << >>
    ELSE IF Len(items) = 1 THEN items[1]
    ELSE items[1] \o <<NL>> \o JoinLines(Tail(items))

\* ProducerEnd with a message that holds the first fault line only
ProducerEnd_FirstOnly(f, l) ==
    IF l.java_exceptions # << >>
    THEN [f EXCEPT !.pc = "raised", !.result.exc = "RuntimeError",
                   !.result.message = <<"java.lang.Exceptions raised:", NL>>
                                        \o l.java_exceptions[1]]
    ELSE [f EXCEPT !.pc = "returned"]

\* ccsProducer, lines 138-140, for the listener l of the script
ProducerEnd(f, l) ==
    IF l.java_exceptions # << >>
    THEN [f EXCEPT !.pc = "raised", !.result.exc = "RuntimeError",
                   !.result.message = <<"java.lang.Exceptions raised:", NL>>
                                        \o JoinLines(l.java_exceptions)]
    ELSE [f EXCEPT !.pc = "returned"]

P_End ==
    /\ fn.name = "ccsProducer"
    /\ fn.pc = "logged"
    /\ fn' = ProducerEnd(fn, lst[Len(lst)])
    /\ UNCHANGED <<sessionVars, toolVars, stageVars>>

InitProducer ==
    /\ SessionIdle
    /\ ToolsIdle
    /\ StageIdle
    /\ \E a \in SetupAssignments : fn = ScriptCall("ccsProducer", a)

NextProducer ==
    \/ \E greeting \in Greetings, rnd \in ScriptRands :
            Construct(ProducerName, greeting, ScriptClock, rnd)
    \/ \E f \in FileTexts, rnd \in ScriptRands : P_Script(ScriptClock, f, rnd)
    \/ WriteEnvelope
    \/ WriteFails
    \/ PollReturn
    \/ \E rnd \in ScriptRands : ScriptNext(ScriptClock, rnd)
    \/ \E out \in ScriptOutputs : ScriptReply(out)
    \/ SocketFail
    \/ \E h \in Handles, n \in 1..Len(sockIn) : L_Recv(h, n)
    \/ \E h \in Handles : L_RecvError(h)
    \/ \E h \in Handles : L_Strip(h)
    \/ P_Log
    \/ P_End

SpecProducer == InitProducer /\ [][NextProducer]_vars

(***************************************************************************)
(* The listener alone, as the unit test drives it: a listener with a given *)
(* id, running set, and a socket that holds a response stream.             *)
(***************************************************************************)
ListenerStreams(id) ==
    {body \o tail : body \in BoundedSeq(StreamAlphabet, MaxBody),
                    tail \in {SentinelLine(id), Sentinel(id)}}
        \cup {SocketText \o <<NL>> \o Sentinel(id)}

InitListener ==
    /\ PureIdle
    /\ ToolsIdle
    /\ StageIdle
    /\ caller = Caller("harness", 1, << >>, FALSE, "none")
    /\ conn = [name |-> NoName, connectionResult |-> << >>]
    /\ now = 1
    /\ sockState = "open"
    /\ sent = << >>
    /\ served = 0
    /\ splits = 0
    /\ hist = <<NewHist(<< >>, FALSE)>>
    /\ \E id \in ListenerIds \cup {<<"0">>} :
        /\ lst = <<NewListener(id)>>
        /\ sockIn \in ListenerStreams(id)

NextListener ==
    \/ \E n \in 1..Len(sockIn) : L_Recv(1, n)
    \/ L_Strip(1)

SpecListener == InitListener /\ [][NextListener]_vars

(***************************************************************************)
(* The functions of the library that keep no state, each applied to one    *)
(* argument: the call is made in the initial state and returns in a step.  *)
(***************************************************************************)
ParserAlphabet == {"3", ".", "e", "-", " ", "[", "]", ","}

\* result texts: the texts of the documentation and the tests, typical
\* replies, and every text of at most MaxText characters of ParserAlphabet
ParserTexts ==
    {<<"3">>, <<"3", ".", "5">>, <<"T", "r", "u", "e">>,
     <<"F", "a", "l", "s", "e">>,
     <<"[", "1", ",", " ", "2", ",", " ", "3", "]">>,
     <<"[", "1", ",", " ", "2", ",", " ", "3", "]", NL>>,
     <<"[", "3", ".", "5", ",", " ", "T", "r", "u", "e", ",", " ", "o", "k", "]">>,
     <<"-", "1", "2", NL>>, <<"1", "E", "-", "2">>, <<"1", "0", "e", "+", "1">>,
     <<"o", "k">>, <<"t", "r", "u", "e">>, <<"T", "r", "u", "e", ".">>,
     <<"[", "W", "]", " ", "o", "k">>,
     <<"[", "[", "1", ",", " ", "2", "]", ",", " ", "[", "3", ",", " ", "4", "]", "]">>}
        \cup BoundedSeq(ParserAlphabet, MaxText)

Call(name, arg) == [name |-> name, arg |-> arg, pc |-> "call", result |-> NoneV]

CastAlphabet == {"3", ".", "e", "E", "-", " "}

\* values of a section as ConfigParser hands them over: no whitespace at
\* either end
CastTexts ==
    {t \in BoundedSeq(CastAlphabet, MaxText) : Strip(t) = t}
        \cup {NoneText, <<"1", ".", "5", "e", "-", "4">>, <<"1", "E", "+", "1", "0">>}

\* the values the test writes, and a few more of each kind
WrittenValues ==
    {IntV(3), IntV(5), IntV(0), IntV(-12),
     FloatV(<<5, -4>>), FloatV(<<1261, -1>>), FloatV(<<3, 0>>), FloatV(<<-25, -1>>),
     FloatV(<<1, -5>>), FloatV(<<12, 15>>), FloatV(<<0, 0>>),
     StrV(<<"f", "o", "o", "b", "a", "r">>),
     StrV(<<"t", "e", "s", "t", " ", "s", "t", "r", "i", "n", "g">>)}

\* the sections written by the test
TestSections ==
    {[key \in {"integer", "floating_point", "string_value"} |->
        PyStr(IF key = "integer" THEN IntV(3)
              ELSE IF key = "floating_point" THEN FloatV(<<5, -4>>)
              ELSE StrV(<<"f", "o", "o", "b", "a", "r">>))],
     [key \in {"integer", "floating_point", "string_value"} |->
        PyStr(IF key = "integer" THEN IntV(5)
              ELSE IF key = "floating_point" THEN FloatV(<<1261, -1>>)
              ELSE StrV(<<"t", "e", "s", "t", " ", "s", "t", "r", "i", "n", "g">>))]}

Sections ==
    TestSections
        \cup {[key \in {"k"} |-> t] : t \in CastTexts}
        \cup {[key \in {"k"} |-> PyStr(v)] : v \in WrittenValues}

LsstNums == {<<"L">>, <<"L", "_", "4">>}

RunNumbers == {<<"4">>, <<"4", "5">>, <<"4", "_">>}

\* os.environ with or without LCATR_RUN_NUMBER
RunEnv == {[set |-> FALSE, value |-> << >>]}
            \cup {[set |-> TRUE, value |-> r] : r \in RunNumbers}

Products == BoundedSeq({"d", "4", "_"}, MaxText)

DotPng == <<".", "p", "n", "g">>

\* '%s_%s_%s.png' % (lsst_num, run_number, data_product)
PngWithRun(lsst_num, run_number, data_product) ==
    lsst_num \o <<"_">> \o run_number \o <<"_">> \o data_product \o DotPng

\* '%s_%s.png' % (lsst_num, data_product)
PngWithoutRun(lsst_num, data_product) ==
    lsst_num \o <<"_">> \o data_product \o DotPng

PngFiles(lsst_num) ==
    {PngWithRun(lsst_num, r, p) : r \in RunNumbers, p \in Products}
        \cup {PngWithoutRun(lsst_num, p) : p \in Products}

PureCalls ==
    {Call("default_parser", t) : t \in ParserTexts}
        \cup {Call("Parfile", section) : section \in Sections}
        \cup UNION {{Call("png_data_product",
                          [pngfile |-> f, lsst_num |-> l, run |-> env]) :
                        f \in PngFiles(l), env \in RunEnv} : l \in LsstNums}

\* parser(result.getOutput()) with the default parser
Return_default_parser ==
    /\ fn.name = "default_parser"
    /\ fn.pc = "call"
    /\ fn' = [fn EXCEPT !.pc = "done", !.result = default_parser(fn.arg)]
    /\ UNCHANGED <<sessionVars, toolVars, stageVars>>

\* siteUtils.Parfile(infile, section)
Return_Parfile ==
    /\ fn.name = "Parfile"
    /\ fn.pc = "call"
    /\ fn' = [fn EXCEPT !.pc = "done", !.result = Parfile(fn.arg)]
    /\ UNCHANGED <<sessionVars, toolVars, stageVars>>

\* siteUtils.png_data_product(pngfile, lsst_num)
Return_png_data_product ==
    /\ fn.name = "png_data_product"
    /\ fn.pc = "call"
    /\ fn' = [fn EXCEPT !.pc = "done",
                !.result = png_data_product(fn.arg.pngfile, fn.arg.lsst_num, fn.arg.run)]
    /\ UNCHANGED <<sessionVars, toolVars, stageVars>>

InitPure ==
    /\ SessionIdle
    /\ ToolsIdle
    /\ StageIdle
    /\ fn \in PureCalls

NextPure ==
    \/ Return_default_parser
    \/ Return_Parfile
    \/ Return_png_data_product

SpecPure == InitPure /\ [][NextPure]_vars

(***************************************************************************)
(* ccs_scripting_tools with the python proxies of ccs_python_proxies in    *)
(* place of the jython CCS object.  Names and commands are sequences of    *)
(* tokens: a word, " " or "/".                                             *)
(***************************************************************************)
\* _NullResponse
NullResponse == IntV(1)

TupleV(items) == [type |-> "tuple", value |-> items]

\* Ts8Proxy.responses, two of its entries
Ts8Responses ==
    [c \in {<<"getREBIds">>, <<"getSequencerParameter", " ", "ClearCount">>} |->
        IF c = <<"getREBIds">> THEN TupleV(<<IntV(0), IntV(1), IntV(2)>>)
        ELSE ListV(<<IntV(1), IntV(1), IntV(1)>>)]

\* CcsType.attachSubsystem: the class of the proxy attached
attachSubsystem(value) ==
    IF value = <<"ts8-proxy">> THEN "Ts8Proxy" ELSE "NullSubsystem"

\* "%s" % arg, str(x): an int (not negative) or a string
FormatS(arg) == IF arg.type = "int" THEN IntToStr(arg.value) ELSE arg.value

\* sep.join(items)
RECURSIVE Join(_, _)
Join(sep, items) ==
    IF items = << >> THEN << >>
    ELSE IF Len(items) = 1 THEN items[1]
    ELSE items[1] \o sep \o Join(sep, Tail(items))

\* synchCommand of a proxy: args[0] is the timeout
ProxySynchCommand(class, args) ==
    LET command == Join(<<" ">>, [i \in 1..(Len(args) - 1) |-> FormatS(args[i + 1])]) IN
    IF class = "Ts8Proxy" /\ command \in DOMAIN Ts8Responses
    THEN Ts8Responses[command] ELSE NullResponse

\* whether reply.getResult() can be called: no int, tuple or list has it
HasGetResult(reply) == reply.type \notin {"int", "tuple", "list", "str"}

\* x.split('/')[0] for each value that is not 'subsystem-proxy'
RealSubsystems(subsystems) ==
    {SplitBy(subsystems[k], <<"/">>)[1] :
        k \in {j \in DOMAIN subsystems : subsystems[j] # <<"subsystem-proxy">>}}

\* _get_version_info raises: one of the replies has no getResult (line 82
\* is outside the try of lines 83-86)
VersionInfoRaises(subsystems) ==
    \E subsystem \in RealSubsystems(subsystems) :
        ~HasGetResult(ProxySynchCommand(attachSubsystem(subsystem),
                        <<IntV(10), StrV(<<"getDistributionInfo">>)>>))

\* CcsSubsystems.__init__: every key becomes an attribute (lines 58-66),
\* then the version information is collected and written
CcsSubsystems_init(subsystems) ==
    /\ ccs.pc = "new"
    /\ ccs' = IF VersionInfoRaises(subsystems)
              THEN [pc |-> "raised", exc |-> "AttributeError",
                    subsystems |-> subsystems, attrs |-> DOMAIN subsystems]
              ELSE [pc |-> "built", exc |-> "none",
                    subsystems |-> subsystems, attrs |-> DOMAIN subsystems]
    /\ UNCHANGED <<sessionVars, pureVars, stageVars, deco, logged, received>>

\* command_string with the quoting of SubsystemDispatcher: '%s' around
\* strings, ', ' between the arguments
CommandString_Quoted(args) ==
    Join(<<",", " ">>,
         [i \in 1..Len(args) |->
            IF args[i].type = "str" THEN <<"'">> \o args[i].value \o <<"'">>
            ELSE FormatS(args[i])])

\* _log_command line 21: " ".join(["%s" % arg for arg in args])
CommandString(args) == Join(<<" ">>, [i \in 1..Len(args) |-> FormatS(args[i])])

\* synchCommand(*args) or asynchCommand(*args) is called
D_Call(method, args) ==
    /\ deco.pc = "idle"
    /\ deco.calls < MaxCalls
    /\ deco' = [deco EXCEPT !.pc = "log", !.method = method, !.args = args,
                            !.calls = deco.calls + 1]
    /\ UNCHANGED <<sessionVars, pureVars, stageVars, ccs, logged, received>>

\* self._log_command(args)
D_Log ==
    /\ deco.pc = "log"
    /\ logged' = IF deco.logger # "None"
                 THEN Append(logged, CommandString(deco.args)) ELSE logged
    /\ deco' = [deco EXCEPT !.pc = "forward"]
    /\ UNCHANGED <<sessionVars, pureVars, stageVars, ccs, received>>

\* return self.ccs_subsystem.synchCommand(*args), or asynchCommand: the
\* wrapped subsystem gets the arguments and its reply is returned
D_Forward(reply) ==
    /\ deco.pc = "forward"
    /\ received' = Append(received,
                        [method |-> deco.method, args |-> deco.args, reply |-> reply])
    /\ deco' = [deco EXCEPT !.pc = "idle", !.result = reply]
    /\ UNCHANGED <<sessionVars, pureVars, stageVars, ccs, logged>>

\* the values the tests pass as arguments
ArgValues ==
    {IntV(10), StrV(<<"setTestType">>), StrV(<<"FE55">>),
     StrV(<<"setTestType", " ", "FE55">>)}

ArgLists == BoundedSeq(ArgValues, MaxArgs)

SubsystemReplies == {NullResponse, StrV(<<"ok">>)}

SubsystemNames ==
    {<<"ts8">>, <<"ts", "/", "PhotoDiode">>, <<"ts", "/", "Monochromator">>,
     <<"ts8-proxy">>, <<"subsystem-proxy">>}

AttrNames == {"ts8", "pd", "mono"}

\* the dictionaries of subsystem names keyed by attribute name
SubsystemDicts == UNION {[keys -> SubsystemNames] : keys \in SUBSET AttrNames}

\* SubsystemDecorator.__init__
NewDecorator(logger) ==
    [logger |-> logger, pc |-> "idle", method |-> "none", args |-> << >>,
     result |-> NoneV, calls |-> 0]

\* either a CcsSubsystems is about to be constructed, or a decorator has
\* been and is about to be called
InitTools ==
    /\ SessionIdle
    /\ PureIdle
    /\ StageIdle
    /\ \/ ccs = [pc |-> "new"] /\ deco = [pc |-> "none"]
       \/ /\ ccs = [pc |-> "none"]
          /\ deco \in {NewDecorator(logger) : logger \in {"None", "logger"}}
    /\ logged = << >>
    /\ received = << >>

NextTools ==
    \/ \E subsystems \in SubsystemDicts : CcsSubsystems_init(subsystems)
    \/ \E method \in {"synchCommand", "asynchCommand"}, args \in ArgLists :
            D_Call(method, args)
    \/ D_Log
    \/ \E reply \in SubsystemReplies : D_Forward(reply)

SpecTools == InitTools /\ [][NextTools]_vars

(***************************************************************************)
(* TS8Stage: the stage control.  Times are in units of 1/20 second,        *)
(* lengths in units of 1/10 mm, speeds in mm/second.  Time passes in       *)
(* sleep() only: the other statements take none.                           *)
(***************************************************************************)
\* sleep(0.25)
PollUnits == 5

\* timedelta(seconds=timeout+2.0): the 2.0
GraceUnits == 40

\* the 1.0 second added to the time of a move
MoveSlack == 20

\* X, Y and Z
AxisTable ==
    [a \in {"X", "Y", "Z"} |->
        IF a = "X" THEN [name |-> "X", index |-> 0, maxTravel |-> 4800, maxSpeed |-> 20]
        ELSE IF a = "Y" THEN [name |-> "Y", index |-> 1, maxTravel |-> 3780, maxSpeed |-> 20]
        ELSE [name |-> "Z", index |-> 2, maxTravel |-> 565, maxSpeed |-> 10]]

AxisNames == DOMAIN AxisTable

\* _checkAxis(ax) raises ValueError
NotAnAxis(ax) == ax \notin DOMAIN AxisTable

\* travel / speed, a time
TravelTime(travel, speed) == (2 * travel) \div speed

\* home: timeout = ax.maxTravel / ax.maxSpeed
HomeTimeout(ax) == TravelTime(AxisTable[ax].maxTravel, AxisTable[ax].maxSpeed)

\* moveTo: timeout = axis.maxTravel / min(speed, axis.maxSpeed) + 1.0
MoveToTimeout(ax, speed) ==
    TravelTime(AxisTable[ax].maxTravel, Min(speed, AxisTable[ax].maxSpeed)) + MoveSlack

\* moveBy: accel = 10.0 * speed, d = accel * 0.1 * 0.1 = 0.1 * speed,
\* moveTime = 0.1 + (change - d)/speed + 0.1
MoveTime(ax, change, speed) ==
    LET v == Min(speed, AxisTable[ax].maxSpeed) IN
    2 + (2 * change - 2 * v) \div v + 2

\* None
NoStatus == [id |-> 0, axis |-> "none", moving |-> FALSE]

\* _ReplyHandler.__init__; iostatus and capturedData are the attributes
\* _iostatus and _capturedData that the callbacks of lines 293 and 299 set
NewReplyHandler ==
    [controllerStatus |-> NoStatus,
     axisStatus |-> [a \in AxisNames |-> NoStatus],
     ioStatus |-> NoStatus,
     platformConfig |-> NoStatus,
     captureData |-> NoStatus,
     iostatus |-> NoStatus,
     capturedData |-> NoStatus]

\* the getters of _ReplyHandler
getControllerStatus(r) == r.controllerStatus

getAxisStatus(r, axis) == r.axisStatus[AxisTable[axis].name]

getIoStatus(r) == r.ioStatus

getPlatformConfig(r) == r.platformConfig

getCapturedata(r) == r.captureData

MsgKinds == {"controllerStatus", "ioStatus", "platformConfig", "capturedData"}

\* the message delivered next: a new object each time
NextMsg(name, moving) == [id |-> bus.n + 1, axis |-> name, moving |-> moving]

Delivered(key, msg) == [n |-> bus.n + 1, last |-> [bus.last EXCEPT ![key] = msg]]

\* _ReplyHandler.axisStatus(axstat)
H_axisStatus(name, moving) ==
    /\ bus.n < MaxMsgs
    /\ replies' = [replies EXCEPT !.axisStatus[name] = NextMsg(name, moving)]
    /\ bus' = Delivered(name, NextMsg(name, moving))
    /\ UNCHANGED <<sessionVars, pureVars, toolVars, stage, worker, clock>>

\* _ReplyHandler.controllerStatus(constat)
H_controllerStatus ==
    /\ bus.n < MaxMsgs
    /\ replies' = [replies EXCEPT !.controllerStatus = NextMsg("none", FALSE)]
    /\ bus' = Delivered("controllerStatus", NextMsg("none", FALSE))
    /\ UNCHANGED <<sessionVars, pureVars, toolVars, stage, worker, clock>>

\* _ReplyHandler.ioStatus(iostat)
H_ioStatus ==
    /\ bus.n < MaxMsgs
    /\ replies' = [replies EXCEPT !.iostatus = NextMsg("none", FALSE)]
    /\ bus' = Delivered("ioStatus", NextMsg("none", FALSE))
    /\ UNCHANGED <<sessionVars, pureVars, toolVars, stage, worker, clock>>

\* _ReplyHandler.platformConfig(config)
H_platformConfig ==
    /\ bus.n < MaxMsgs
    /\ replies' = [replies EXCEPT !.platformConfig = NextMsg("none", FALSE)]
    /\ bus' = Delivered("platformConfig", NextMsg("none", FALSE))
    /\ UNCHANGED <<sessionVars, pureVars, toolVars, stage, worker, clock>>

\* _ReplyHandler.capturedData(data)
H_capturedData ==
    /\ bus.n < MaxMsgs
    /\ replies' = [replies EXCEPT !.capturedData = NextMsg("none", FALSE)]
    /\ bus' = Delivered("capturedData", NextMsg("none", FALSE))
    /\ UNCHANGED <<sessionVars, pureVars, toolVars, stage, worker, clock>>

\* a method of Stage is entered: its axis arguments, the commands sent so far
Entered(method, axes) ==
    [pc |-> "run", method |-> method, axes |-> axes, rest |-> axes,
     axis |-> "none", timeout |-> 0, deadline |-> 0,
     oldStatus |-> NoStatus, status |-> NoStatus, exc |-> "none",
     base |-> Len(worker), calls |-> stage.calls + 1]

CanCall ==
    /\ stage.pc \in {"idle", "returned", "raised"}
    /\ stage.calls < MaxStageCalls

Raised(st, exc) == [st EXCEPT !.pc = "raised", !.exc = exc]

\* self._subsys.sendCommand(cmd, arg)
Command(cmd, axis, arg) == [cmd |-> cmd, axis |-> axis, arg |-> arg]

\* enable(axis), disable(axis)
S_Enable(axis, on) ==
    /\ CanCall
    /\ LET st == Entered(IF on THEN "enable" ELSE "disable", <<axis>>) IN
        IF NotAnAxis(axis)
        THEN stage' = Raised(st, "ValueError") /\ UNCHANGED worker
        ELSE /\ worker' = Append(worker,
                    Command("changeAxisEnable", AxisTable[axis].name, <<on>>))
             /\ stage' = [st EXCEPT !.pc = "returned"]
    /\ UNCHANGED <<sessionVars, pureVars, toolVars, replies, clock, bus>>

\* clearFaults(), stop()
S_NoAxis(method, cmd) ==
    /\ CanCall
    /\ worker' = Append(worker, Command(cmd, "none", << >>))
    /\ stage' = [Entered(method, << >>) EXCEPT !.pc = "returned"]
    /\ UNCHANGED <<sessionVars, pureVars, toolVars, replies, clock, bus>>

\* moveTo(axis, position, speed) up to its call of waitForStop
S_MoveTo(axis, position, speed) ==
    /\ CanCall
    /\ LET st == Entered("moveTo", <<axis>>) IN
        IF NotAnAxis(axis)
        THEN stage' = Raised(st, "ValueError") /\ UNCHANGED worker
        ELSE /\ worker' = Append(worker,
                    Command("moveAxisAbsolute", AxisTable[axis].name,
                            <<position, Min(speed, AxisTable[axis].maxSpeed)>>))
             /\ stage' = [st EXCEPT !.pc = "wait0", !.axis = axis,
                                    !.timeout = MoveToTimeout(axis, speed)]
    /\ UNCHANGED <<sessionVars, pureVars, toolVars, replies, clock, bus>>

\* moveBy(axis, change, speed) up to its call of waitForStop
S_MoveBy(axis, change, speed) ==
    /\ CanCall
    /\ LET st == Entered("moveBy", <<axis>>) IN
        IF NotAnAxis(axis)
        THEN stage' = Raised(st, "ValueError") /\ UNCHANGED worker
        ELSE /\ worker' = Append(worker,
                    Command("moveAxisRelative", AxisTable[axis].name,
                            <<change, MoveTime(axis, change, speed)>>))
             /\ stage' = [st EXCEPT !.pc = "wait0", !.axis = axis,
                                    !.timeout = MoveTime(axis, change, speed) + MoveSlack]
    /\ UNCHANGED <<sessionVars, pureVars, toolVars, replies, clock, bus>>

\* home(*axes) is called
S_Home(axes) ==
    /\ CanCall
    /\ stage' = [Entered("home", axes) EXCEPT !.pc = "home"]
    /\ UNCHANGED <<sessionVars, pureVars, toolVars, replies, worker, clock, bus>>

\* home, lines 162-166: the next axis, up to its call of waitForStop
S_HomeNext ==
    /\ stage.pc = "home"
    /\ IF stage.rest = << >>
       THEN stage' = [stage EXCEPT !.pc = "returned"] /\ UNCHANGED worker
       ELSE IF NotAnAxis(Head(stage.rest))
       THEN stage' = Raised(stage, "ValueError") /\ UNCHANGED worker
       ELSE /\ worker' = Append(worker,
                    Command("homeAxis", AxisTable[Head(stage.rest)].name, << >>))
            /\ stage' = [stage EXCEPT !.pc = "wait0", !.axis = Head(stage.rest),
                                      !.rest = Tail(stage.rest),
                                      !.timeout = HomeTimeout(Head(stage.rest))]
    /\ UNCHANGED <<sessionVars, pureVars, toolVars, replies, clock, bus>>

\* waitForStop(axis, timeout) is called
S_WaitForStop(axis, timeout) ==
    /\ CanCall
    /\ stage' = [Entered("waitForStop", <<axis>>) EXCEPT
                    !.pc = "wait0", !.axis = axis, !.timeout = timeout]
    /\ UNCHANGED <<sessionVars, pureVars, toolVars, replies, worker, clock, bus>>

\* waitForStop lines 198-200
W_Enter ==
    /\ stage.pc = "wait0"
    /\ stage' = IF NotAnAxis(stage.axis) THEN Raised(stage, "ValueError")
                ELSE [stage EXCEPT !.pc = "wait1",
                        !.oldStatus = getAxisStatus(replies, stage.axis),
                        !.deadline = clock + stage.timeout + GraceUnits]
    /\ UNCHANGED <<sessionVars, pureVars, toolVars, replies, worker, clock, bus>>

\* waitForStop is left: back in home, or the call of the method is over
WaitReturns(st) == [st EXCEPT !.pc = IF st.method = "home" THEN "home" ELSE "returned"]

\* the loop tests of lines 205 and 211 on a status just read; status is
\* oldStatus when they are the same message object
AfterRead(st, status, pc) ==
    IF pc = "loop1" /\ status.id = st.oldStatus.id
    THEN [st EXCEPT !.pc = "loop1", !.status = status]
    ELSE IF status.moving
    THEN [st EXCEPT !.pc = "loop2", !.status = status,
                    !.oldStatus = IF pc = "loop1" THEN status ELSE st.oldStatus]
    ELSE WaitReturns([st EXCEPT !.status = status,
                    !.oldStatus = IF pc = "loop1" THEN status ELSE st.oldStatus])

\* waitForStop line 201, and the first loop test
W_Status ==
    /\ stage.pc = "wait1"
    /\ stage' = AfterRead(stage, getAxisStatus(replies, stage.axis), "loop1")
    /\ UNCHANGED <<sessionVars, pureVars, toolVars, replies, worker, clock, bus>>

\* TimedOut of a loop that does not look at the deadline
TimedOut_Never(t, deadline) == FALSE

\* datetime.now() > deadline
TimedOut(t, deadline) == t > deadline

\* one pass of a loop of waitForStop: lines 206-209 or 212-215
W_Poll ==
    /\ stage.pc \in {"loop1", "loop2"}
    /\ clock < MaxClock
    /\ clock' = clock + PollUnits
    /\ stage' = IF TimedOut(clock + PollUnits, stage.deadline)
                THEN Raised(stage, "TimeoutError")
                ELSE AfterRead(stage, getAxisStatus(replies, stage.axis), stage.pc)
    /\ UNCHANGED <<sessionVars, pureVars, toolVars, replies, worker, bus>>

\* an axis argument: X, Y, Z, or an object that is not an _Axis
AxisArgs == AxisNames \cup {"bad"}

\* the axes status messages are about
StatusAxes == {"X", "Y"}

Speeds == {20, 40}

Positions == {0}

Changes == {100, -100, -1000}

\* timeouts of waitForStop called on its own: 0, 0.25 and 0.35 second
WaitTimeouts == {0, 5, 7}

IdleStage ==
    [pc |-> "idle", method |-> "none", axes |-> << >>, rest |-> << >>,
     axis |-> "none", timeout |-> 0, deadline |-> 0,
     oldStatus |-> NoStatus, status |-> NoStatus, exc |-> "none",
     base |-> 0, calls |-> 0]

\* Stage.__init__ has run and no status message has come yet
StageBuilt ==
    /\ replies = NewReplyHandler
    /\ worker = << >>
    /\ clock = 0
    /\ bus = [n |-> 0, last |-> [k \in MsgKinds \cup AxisNames |-> NoStatus]]

InitStage ==
    /\ SessionIdle
    /\ PureIdle
    /\ ToolsIdle
    /\ StageBuilt
    /\ stage = IdleStage

NextStage ==
    \/ \E axis \in AxisArgs, on \in BOOLEAN : S_Enable(axis, on)
    \/ S_NoAxis("clearFaults", "clearAllFaults")
    \/ S_NoAxis("stop", "stopAllMotion")
    \/ \E axis \in AxisArgs, position \in Positions, speed \in Speeds :
            S_MoveTo(axis, position, speed)
    \/ \E axis \in AxisArgs, change \in Changes, speed \in Speeds :
            S_MoveBy(axis, change, speed)
    \/ \E axes \in BoundedSeq(AxisArgs, MaxAxes) : S_Home(axes)
    \/ S_HomeNext
    \/ \E axis \in AxisArgs, timeout \in WaitTimeouts : S_WaitForStop(axis, timeout)
    \/ W_Enter
    \/ W_Status
    \/ W_Poll
    \/ \E name \in StatusAxes, moving \in BOOLEAN : H_axisStatus(name, moving)

SpecStage == InitStage /\ [][NextStage]_vars

\* waitForStop alone: the call has been made; the thread that runs it keeps
\* running (sleep returns), messages come or do not
InitWait ==
    /\ SessionIdle
    /\ PureIdle
    /\ ToolsIdle
    /\ StageBuilt
    /\ \E axis \in AxisArgs, timeout \in WaitTimeouts :
        stage = [IdleStage EXCEPT !.pc = "wait0", !.method = "waitForStop",
                    !.axes = <<axis>>, !.rest = <<axis>>, !.axis = axis,
                    !.timeout = timeout, !.calls = 1]

WaitStep == W_Enter \/ W_Status \/ W_Poll

NextWait ==
    \/ W_Enter
    \/ W_Status
    \/ W_Poll
    \/ \E name \in StatusAxes, moving \in BOOLEAN : H_axisStatus(name, moving)

SpecWait == InitWait /\ [][NextWait]_vars /\ WF_vars(WaitStep)

\* the reply handler alone, as the status bus calls it
InitHandler ==
    /\ SessionIdle
    /\ PureIdle
    /\ ToolsIdle
    /\ StageBuilt
    /\ stage = IdleStage

NextHandler ==
    \/ \E name \in StatusAxes, moving \in BOOLEAN : H_axisStatus(name, moving)
    \/ H_controllerStatus
    \/ H_ioStatus
    \/ H_platformConfig
    \/ H_capturedData

SpecHandler == InitHandler /\ [][NextHandler]_vars

(***************************************************************************)
(* Properties.                                                             *)
(***************************************************************************)
Stopped(h) == lst[h].pc \in {"strip", "exit"}

\* chunk holds the sentinel line of id other and, that line taken out, no
\* sentinel of id own
CarriesOnlyOther(chunk, own, other) ==
    /\ Contains(chunk, SentinelLine(other))
    /\ ~Contains(Replace(chunk, SentinelLine(other)), Sentinel(own))

\* C1: a listener never clears running on a chunk that carries only the
\* sentinel line of another command's id, also when its own id is a proper
\* prefix of that id.
C1_StopsOnlyOnOwnSentinel ==
    \A h1 \in Handles : \A h2 \in Handles :
        (lst[h1].threadId # lst[h2].threadId /\ ~lst[h1].running)
            => ~CarriesOnlyOther(hist[h1].stopChunk, lst[h1].threadId, lst[h2].threadId)

\* C2: when the last chunk read holds the sentinel line and the listener has
\* finished, executionOutput is everything it read with the sentinel line
\* taken out, and running is False; the two examples of the spec included.
C2_FinalOutput ==
    \A h \in Handles :
        (lst[h].pc = "exit" /\ Contains(hist[h].stopChunk, SentinelLine(lst[h].threadId)))
            => /\ ~lst[h].running
               /\ lst[h].executionOutput
                    = Replace(hist[h].recvd, SentinelLine(lst[h].threadId))
               /\ (lst[h].threadId = <<"7">>
                     /\ hist[h].recvd = <<"w", NL, "doneExecution:", "7", NL>>)
                    => lst[h].executionOutput = <<"w", NL>>
               /\ (lst[h].threadId = <<"4", "2">>
                     /\ hist[h].recvd = <<"2", NL, "doneExecution:", "4", "2", NL>>)
                    => lst[h].executionOutput = <<"2", NL>>

\* C2 witness: a finished listener that read its response in two chunks, the
\* last one holding the sentinel line, and kept the text before it.
C2_Witness ==
    \E h \in Handles :
        /\ lst[h].pc = "exit"
        /\ Contains(hist[h].stopChunk, SentinelLine(lst[h].threadId))
        /\ Len(hist[h].recvd) > Len(hist[h].stopChunk)
        /\ lst[h].executionOutput = <<"w", NL>>

\* C3: when the listener has stopped, java_exceptions is the list of the
\* lines of the stream it read that match the fault pattern, in order,
\* however the stream was cut into chunks.
C3_FaultListIsMatchingLines ==
    \A h \in Handles :
        Stopped(h) => lst[h].java_exceptions = SelectSeq(Split(hist[h].recvd), ReMatch)

\* C4: the unit test: after the socket text of run 11063 followed by
\* doneExecution:<id>, java_exceptions is not empty.
C4_TestJavaExceptionHandling ==
    \A h \in Handles :
        (Stopped(h) /\ hist[h].recvd = SocketText \o <<NL>> \o Sentinel(lst[h].threadId))
            => lst[h].java_exceptions # << >>

\* C5: a greeting that holds ConnectionRefused makes the constructor fail
\* with CcsException; no listener exists and nothing was sent, whether or not
\* a name was passed.
C5_RefusedGreeting ==
    (sockState # "none" /\ Contains(conn.connectionResult, Refusal))
        => /\ caller.pc = "raised"
           /\ caller.exc = "CcsException"
           /\ lst = << >>
           /\ sent = << >>

\* C5 witness: the constructor was given a name, read a greeting with text
\* before the refusal marker, and raised.
C5_Witness ==
    /\ conn.name # NoName
    /\ conn.connectionResult = <<"w">> \o Refusal
    /\ caller.pc = "raised"

\* the last n items of s
LastItems(s, n) == SubSeq(s, Len(s) - n + 1, Len(s))

\* C6: once a synchronous call has returned for a command, its listener has
\* read a chunk with its sentinel, running is False, the listener reads no
\* more, and the faults of that last chunk are already in java_exceptions.
C6_SyncReturnsAfterCompletion ==
    \A h \in Handles :
        (hist[h].sync /\ hist[h].returned)
            => /\ ~lst[h].running
               /\ Stopped(h)
               /\ Contains(hist[h].stopChunk, Sentinel(lst[h].threadId))
               /\ Len(lst[h].java_exceptions) >= Len(ChunkFaults(hist[h].stopChunk))
               /\ LastItems(lst[h].java_exceptions, Len(ChunkFaults(hist[h].stopChunk)))
                    = ChunkFaults(hist[h].stopChunk)

\* C6 witness: a synchronous call has returned for a command whose last chunk
\* held a fault line, before the listener stripped the sentinel.
C6_Witness ==
    \E h \in Handles :
        /\ hist[h].sync
        /\ hist[h].returned
        /\ ChunkFaults(hist[h].stopChunk) # << >>
        /\ lst[h].pc = "strip"

\* C7: the k-th send is the envelope of the k-th command: the start line
\* with its id, the body as given, the end line with the same id, each
\* command sent in one send; the id the remote reads from the envelope is the
\* id whose sentinel the listener waits for.
C7_EnvelopeFraming ==
    /\ Len(sent) <= Len(lst)
    /\ Len(sent) < Len(lst) => (Len(sent) = Len(lst) - 1 /\ caller.pc \in {"send", "raised"})
    /\ \A k \in 1..Len(sent) :
        /\ sent[k] = <<"startContent:">> \o lst[k].threadId \o <<NL>>
                        \o hist[k].content
                        \o <<NL, "endContent:">> \o lst[k].threadId \o <<NL>>
        /\ SentinelLine(EnvelopeId(sent[k])) = SentinelLine(lst[k].threadId)

\* C7 witness: two commands were sent, one of them with a body of two lines.
C7_Witness ==
    /\ Len(sent) = 2
    /\ \E k \in 1..Len(sent) : Contains(hist[k].content, <<NL>>)

\* C8: the id of a command differs from the id of every command still
\* awaiting completion, and does not occur in the body of its own command.
C8_FreshIds ==
    /\ \A h1 \in Handles : \A h2 \in Handles :
        (h1 < h2 /\ lst[h1].running /\ lst[h2].running)
            => lst[h1].threadId # lst[h2].threadId
    /\ \A h \in Handles : ~Contains(hist[h].content, lst[h].threadId)

\* the caller leaves the poll loop of getOutput
CallerLeavesWait ==
    \/ PollReturn
    \/ \E ms \in ClockValues, rnd \in RandValues : ScriptNext(ms, rnd)

\* C9: when recv raised in the listener of the command the caller is blocked
\* on, the caller gets out of its wait.
C9_ReadErrorReachesCaller ==
    \A h \in Handles :
        (lst[h].pc = "died" /\ caller.pc = "wait" /\ caller.h = h)
            => ENABLED CallerLeavesWait

\* C10: a synchronous command whose listener recorded fault lines and
\* stopped: the waiting caller can return, and once it has returned it raised
\* nothing because of the fault, the text it got is all the listener read
\* (with or without the sentinel line), and the command was sent once.
C10_RemoteFaultReturnsNormally ==
    \A h \in Handles :
        (hist[h].sync /\ lst[h].java_exceptions # << >> /\ ~lst[h].running)
            => /\ (caller.pc = "wait" /\ caller.h = h) => ENABLED CallerLeavesWait
               /\ hist[h].returned =>
                    /\ hist[h].got \in {hist[h].recvd,
                                        Replace(hist[h].recvd, SentinelLine(lst[h].threadId))}
                    /\ caller.pc = "raised" =>
                            (caller.exc = "socket.error" /\ sockState = "error")
               /\ Len(sent) <= Len(lst)

\* C10 witness: a synchronous call returned to an idle caller with a fault
\* line recorded and the output in hand.
C10_Witness ==
    \E h \in Handles :
        /\ hist[h].sync
        /\ hist[h].returned
        /\ lst[h].java_exceptions # << >>
        /\ hist[h].got # << >>
        /\ caller.pc = "idle"

(***************************************************************************)
(* C11: the default parser.                                                *)
(***************************************************************************)
\* the value the scalar rules give for a text: an integer literal is an
\* int, numeric text with '.', 'e' or 'E' a float, True and False the
\* booleans, anything else the text itself
C11_Scalar(data) ==
    IF IntAccepts(data) THEN IntV(IntOf(data))
    ELSE IF FloatAccepts(data) /\ (Find(data, ".") \/ Find(data, "e") \/ Find(data, "E"))
    THEN FloatV(FloatOf(data))
    ELSE IF data = <<"T", "r", "u", "e">> THEN BoolV(TRUE)
    ELSE IF data = <<"F", "a", "l", "s", "e">> THEN BoolV(FALSE)
    ELSE StrV(data)

\* text in brackets
C11_Bracketed(data) == Len(data) >= 2 /\ data[1] = "[" /\ data[Len(data)] = "]"

\* the text between the brackets
C11_Inner(data) == SubSeq(data, 2, Len(data) - 1)

\* a list of scalars like '[1, 2, 3]': brackets around a text that is not
\* empty and holds no bracket
C11_FlatList(data) ==
    /\ C11_Bracketed(data)
    /\ C11_Inner(data) # << >>
    /\ ~Find(C11_Inner(data), "[")
    /\ ~Find(C11_Inner(data), "]")

C11_Items(data) == SplitBy(C11_Inner(data), <<",", " ">>)

\* C11: default_parser gives, for the result text with its trailing
\* whitespace stripped: an int for an integer literal, a float for numeric
\* text with '.', 'e' or 'E', the booleans for True and False, for a list of
\* scalars like '[1, 2, 3]' the list of its items' values, and any other
\* text unchanged as a string.  (Empty and nested lists are not judged
\* here.)
C11_DefaultParser ==
    (fn.name = "default_parser" /\ fn.pc = "done") =>
        LET data == RStrip(fn.arg) IN
        IF C11_FlatList(data)
        THEN fn.result =
                ListV([i \in 1..Len(C11_Items(data)) |->
                            C11_Scalar(RStrip(C11_Items(data)[i]))])
        ELSE IF C11_Bracketed(data) THEN TRUE
        ELSE fn.result = C11_Scalar(data)

(***************************************************************************)
(* C12, C13: the scripting tools.                                          *)
(***************************************************************************)
\* the arguments formatted with '%s', a single space between them
RECURSIVE C12_Line(_)
C12_Line(args) ==
    IF args = << >> THEN << >>
    ELSE IF Len(args) = 1 THEN FormatS(args[1])
    ELSE FormatS(args[1]) \o <<" ">> \o C12_Line(Tail(args))

\* the two calls of the test that log '10 setTestType FE55'
C12_TestArgs ==
    {<<IntV(10), StrV(<<"setTestType">>), StrV(<<"FE55">>)>>,
     <<IntV(10), StrV(<<"setTestType", " ", "FE55">>)>>}

C12_TestLine == <<"1", "0", " ", "setTestType", " ", "FE55">>

\* C12: with a logger, every call of synchCommand or asynchCommand writes
\* exactly one log line, the arguments formatted with '%s' and joined by
\* single spaces, before the command is forwarded; the wrapped subsystem
\* receives the arguments of the call once and its result is returned;
\* without a logger nothing is logged and the command is forwarded all the
\* same.
C12_LogsThenForwards ==
    deco.pc # "none" =>
        /\ Len(received) = IF deco.pc = "idle" THEN deco.calls ELSE deco.calls - 1
        /\ deco.logger = "None" => logged = << >>
        /\ deco.logger # "None" =>
            /\ Len(logged) = IF deco.pc = "log" THEN deco.calls - 1 ELSE deco.calls
            /\ \A k \in 1..Len(received) :
                /\ logged[k] = C12_Line(received[k].args)
                /\ received[k].args \in C12_TestArgs => logged[k] = C12_TestLine
            /\ deco.pc = "forward" => logged[deco.calls] = C12_Line(deco.args)
        /\ (deco.pc = "idle" /\ deco.calls > 0) =>
            /\ received[deco.calls].method = deco.method
            /\ received[deco.calls].args = deco.args
            /\ deco.result = received[deco.calls].reply

\* both calls of the test have been made on a decorator with a logger, and
\* the second has returned the reply of the subsystem
C12_Witness ==
    /\ deco.pc = "idle"
    /\ deco.logger = "logger"
    /\ deco.calls = 2
    /\ received[1].args = <<IntV(10), StrV(<<"setTestType", " ", "FE55">>)>>
    /\ received[2].args = <<IntV(10), StrV(<<"setTestType">>), StrV(<<"FE55">>)>>
    /\ logged = <<C12_TestLine, C12_TestLine>>
    /\ deco.result = StrV(<<"ok">>)

\* C13: constructing CcsSubsystems from a dictionary of subsystem names,
\* with the proxy CCS object, does not raise and leaves an attribute for
\* every key.
C13_ConstructionCompletes ==
    ccs.pc \notin {"none", "new"} =>
        /\ ccs.pc = "built"
        /\ ccs.attrs = DOMAIN ccs.subsystems

(***************************************************************************)
(* C14, C15: siteUtils.                                                    *)
(***************************************************************************)
\* what the claim says a value text is cast to
C14_Expected(text) ==
    IF text = NoneText THEN NoneV
    ELSE IF IntAccepts(text) THEN IntV(IntOf(text))
    ELSE IF FloatAccepts(text) /\ (Find(text, ".") \/ Find(text, "e") \/ Find(text, "E"))
    THEN FloatV(FloatOf(text))
    ELSE StrV(text)

\* C14: Parfile holds for every key of the section its value text cast: an
\* int for the text of an integer, a float for the text of a
\* floating-point number (with a decimal point or an exponent), None for
\* 'None', the text itself otherwise; so an int, a float or a plain string
\* written with '%s' is read back equal to what was written.
C14_ParfileCasts ==
    (fn.name = "Parfile" /\ fn.pc = "done") =>
        /\ DOMAIN fn.result = DOMAIN fn.arg
        /\ \A key \in DOMAIN fn.arg :
            /\ fn.result[key] = C14_Expected(fn.arg[key])
            /\ \A v \in WrittenValues : fn.arg[key] = PyStr(v) => fn.result[key] = v

\* C15: png_data_product returns the data product for both naming schemes:
\* <lsst_num>_<run>_<product>.png when LCATR_RUN_NUMBER is <run>, and
\* <lsst_num>_<product>.png when LCATR_RUN_NUMBER is not set or the name
\* does not start with <lsst_num>_<run>.
C15_PngDataProduct ==
    (fn.name = "png_data_product" /\ fn.pc = "done") =>
        \A product \in Products :
            /\ (/\ fn.arg.run.set
                /\ fn.arg.pngfile =
                        PngWithRun(fn.arg.lsst_num, fn.arg.run.value, product))
                    => fn.result = product
            /\ (/\ fn.arg.pngfile = PngWithoutRun(fn.arg.lsst_num, product)
                /\ \/ ~fn.arg.run.set
                   \/ ~StartsWith(fn.arg.pngfile,
                            fn.arg.lsst_num \o <<"_">> \o fn.arg.run.value))
                    => fn.result = product

\* the call has returned the product of a name with the run number, the
\* product itself beginning like a run number
C15_Witness ==
    /\ fn.name = "png_data_product"
    /\ fn.pc = "done"
    /\ fn.arg.run = [set |-> TRUE, value |-> <<"4">>]
    /\ fn.arg.pngfile = PngWithRun(<<"L">>, <<"4">>, <<"4", "_", "d">>)
    /\ fn.result = <<"4", "_", "d">>

(***************************************************************************)
(* C16, C17, C18: the stage control.                                       *)
(***************************************************************************)
C16_Polling == stage.pc \in {"loop1", "loop2"}

C16_Ended == stage.pc \in {"returned", "raised"}

\* C16: waitForStop always ends: it returns only on a status message of
\* the axis that says it is not moving, it raises TimeoutError only when
\* the deadline has passed, and it is never found polling more than one
\* poll interval after its deadline.
C16_WaitForStopEnds ==
    /\ <>C16_Ended
    /\ [](C16_Polling => clock - stage.deadline <= PollUnits)
    /\ [](stage.pc = "returned" =>
            /\ stage.status.id # 0
            /\ stage.status.axis = AxisTable[stage.axis].name
            /\ ~stage.status.moving)
    /\ [](stage.pc = "raised" =>
            \/ stage.exc = "ValueError" /\ NotAnAxis(stage.axis)
            \/ stage.exc = "TimeoutError" /\ clock > stage.deadline)

\* waitForStop has raised TimeoutError on an axis last seen moving
C16_Witness ==
    /\ stage.pc = "raised"
    /\ stage.exc = "TimeoutError"
    /\ stage.status.moving
    /\ clock > stage.deadline

\* C17: a call of enable, disable, moveTo, moveBy, home or waitForStop with
\* an axis argument that is not an _Axis raises ValueError and sends no
\* command to the worker subsystem.
C17_InvalidAxisSendsNothing ==
    (stage.pc # "idle" /\ \E i \in 1..Len(stage.axes) : NotAnAxis(stage.axes[i])) =>
        /\ Len(worker) = stage.base
        /\ C16_Ended => (stage.pc = "raised" /\ stage.exc = "ValueError")

\* C18: each getter of the reply handler returns the latest message of its
\* type delivered so far (for the axis status, of that axis), None when
\* there has been none.
C18_LatestOfEachType ==
    /\ \A axis \in AxisNames : getAxisStatus(replies, axis) = bus.last[axis]
    /\ getControllerStatus(replies) = bus.last["controllerStatus"]
    /\ getIoStatus(replies) = bus.last["ioStatus"]
    /\ getPlatformConfig(replies) = bus.last["platformConfig"]
    /\ getCapturedata(replies) = bus.last["capturedData"]

\* what listener h read from the socket in the step
C19_Chunk(h) ==
    SubSeq(hist'[h].recvd, Len(hist[h].recvd) + 1, Len(hist'[h].recvd))

\* C19: a listener is Running (running is True) from the step that spawns it
\* and moves only from Running to Stopped: a listener that is Running after a
\* step was Running before it; running goes from True to False only in a
\* step in which the listener reads a chunk that contains its sentinel; a
\* step that records a fault line from a chunk without the sentinel leaves
\* running as it was; a Stopped listener reads nothing more from the socket.
C19_RunningToStopped ==
    [][/\ \A h \in Handles :
            /\ lst'[h].running \in BOOLEAN
            /\ lst'[h].running => lst[h].running
            /\ (lst[h].running /\ ~lst'[h].running)
                    => /\ C19_Chunk(h) # << >>
                       /\ Contains(C19_Chunk(h), Sentinel(lst[h].threadId))
            /\ (/\ lst'[h].java_exceptions # lst[h].java_exceptions
                /\ ~Contains(C19_Chunk(h), Sentinel(lst[h].threadId)))
                    => lst'[h].running = lst[h].running
            /\ ~lst[h].running => hist'[h].recvd = hist[h].recvd
       /\ \A h \in (1..Len(lst')) \ Handles : lst'[h].running]_vars

\* C19 witness: a listener that recorded a fault line from a chunk without
\* its sentinel, went on reading, and stopped on a later chunk that held the
\* sentinel and no fault line.
C19_Witness ==
    \E h \in Handles :
        /\ lst[h].pc = "exit"
        /\ ~lst[h].running
        /\ lst[h].java_exceptions # << >>
        /\ Len(hist[h].recvd) > Len(hist[h].stopChunk)
        /\ ChunkFaults(hist[h].stopChunk) = << >>
        /\ Contains(hist[h].stopChunk, Sentinel(lst[h].threadId))

\* C20: whenever running is False the executionOutput of the listener holds
\* no sentinel line, and no text that getOutput or syncExecution returned
\* holds the sentinel line of its command.
C20_StoppedHasNoSentinel ==
    \A h \in Handles :
        /\ ~lst[h].running
                => ~Contains(lst[h].executionOutput, SentinelLine(lst[h].threadId))
        /\ hist[h].returned
                => ~Contains(hist[h].got, SentinelLine(lst[h].threadId))

\* the text listener h has read holds its sentinel, and no chunk it read did:
\* the sentinel came cut in two by the reads
C21_SplitSentinel(h) ==
    /\ Contains(hist[h].recvd, Sentinel(lst[h].threadId))
    /\ hist[h].stopChunk = << >>

\* C21: a listener stops only on a single chunk that holds the whole text
\* doneExecution:<id>; while the text it has read holds the sentinel only
\* across the boundary of two reads it is still Running, it is still in its
\* read loop, and a caller blocked on it has not returned and goes on waiting.
C21_WholeSentinelInOneChunk ==
    \A h \in Handles :
        /\ ~lst[h].running
                => Contains(hist[h].stopChunk, Sentinel(lst[h].threadId))
        /\ C21_SplitSentinel(h)
                => /\ lst[h].running
                   /\ lst[h].pc \in {"loop", "died"}
                   /\ ~hist[h].returned
                   /\ (caller.pc = "wait" /\ caller.h = h) => StillWaiting(lst[h])

\* C21 witness: a caller blocked on a listener that has read all of its
\* sentinel line, in two reads that cut the sentinel, and is still Running.
C21_Witness ==
    \E h \in Handles :
        /\ C21_SplitSentinel(h)
        /\ Contains(hist[h].recvd, SentinelLine(lst[h].threadId))
        /\ sockIn = << >>
        /\ lst[h].running
        /\ caller.pc = "wait"
        /\ caller.h = h

\* t is the beginning of u
C22_IsPrefix(t, u) == Len(t) <= Len(u) /\ SubSeq(u, 1, Len(t)) = t

\* all that listener h read is text the remote interpreter sent for the
\* command of h: the beginning of an output followed by the sentinel line
\* of the id of h
C22_ReadsOwnReply(h) ==
    \E out \in RemoteOutputs :
        C22_IsPrefix(hist[h].recvd, out \o SentinelLine(lst[h].threadId))

\* at most one listener has running True
C22_OneRunning ==
    \A h1 \in Handles : \A h2 \in Handles :
        (lst[h1].running /\ lst[h2].running) => h1 = h2

\* C22: with serialized sends, at most one listener is Running in every
\* state, and every listener has read text of the reply to its own command
\* only.
C22_SerializedSends ==
    /\ C22_OneRunning
    /\ \A h \in Handles : C22_ReadsOwnReply(h)

\* the caller is blocked in getOutput on listener h, which is Running; the
\* remote interpreter has answered every envelope, and what is left in the
\* socket does not hold the sentinel of h
C23_Starved(h) ==
    /\ lst[h].running
    /\ ~hist[h].returned
    /\ caller.pc = "wait"
    /\ caller.h = h
    /\ served = Len(sent)
    /\ ~Contains(sockIn, Sentinel(lst[h].threadId))

\* C23: once the sentinel of a command is no longer there for its listener
\* to read (another listener has read it) the listener never stops and
\* getOutput on its handle never returns: no step ends the wait.
C23_NeverReturns ==
    [][\A h \in Handles : C23_Starved(h) => C23_Starved(h)']_vars

\* C23 witness: two asynchronous sends in flight; the listener of the first
\* has read the sentinel line of the second into its own executionOutput
\* and is still Running; the caller is blocked in getOutput on the second,
\* whose listener has nothing left to read.
C23_Witness ==
    \E h1 \in Handles : \E h2 \in Handles :
        /\ h1 < h2
        /\ ~hist[h1].sync
        /\ ~hist[h2].sync
        /\ lst[h1].running
        /\ Contains(lst[h1].executionOutput, SentinelLine(lst[h2].threadId))
        /\ ~Contains(hist[h2].recvd, Sentinel(lst[h2].threadId))
        /\ sockIn = << >>
        /\ C23_Starved(h2)

\* listener h has read a chunk that holds its whole sentinel
C24_Delivered(h) ==
    /\ h \in Handles
    /\ Contains(hist[h].stopChunk, Sentinel(lst[h].threadId))

\* the caller is inside the getOutput of syncExecution for command h
C24_Blocked(h) ==
    /\ h \in Handles
    /\ caller.pc = "wait"
    /\ caller.h = h
    /\ ~hist[h].returned

\* the getOutput of syncExecution for command h has returned
C24_Returned(h) ==
    /\ h \in Handles
    /\ hist[h].returned
    /\ ~(caller.pc = "wait" /\ caller.h = h)

\* C24: with one command in flight and the threads scheduled fairly, once a
\* chunk with the whole sentinel of the command has been read syncExecution
\* returns; and a caller blocked in syncExecution stays blocked for ever
\* unless such a chunk is read: there is no timeout, whether the remote
\* interpreter hangs, the peer closes or the socket fails.
C24_ReturnsIffSentinel ==
    \A h \in 1..MaxCmds :
        /\ C24_Delivered(h) ~> C24_Returned(h)
        /\ [](C24_Blocked(h) => ([]C24_Blocked(h) \/ <>C24_Delivered(h)))

\* C24 witness: a first syncExecution has returned after its sentinel was
\* read; the caller is blocked in a second one, whose listener is Running
\* on a connection that the peer has closed with nothing left to read.
C24_Witness ==
    /\ Len(lst) = 2
    /\ C24_Delivered(1)
    /\ hist[1].returned
    /\ C24_Blocked(2)
    /\ ~C24_Delivered(2)
    /\ lst[2].running
    /\ sockState = "closed"
    /\ sockIn = << >>

\* C25: every envelope is written for a listener that was created, marked
\* Running and started in an earlier step, under the id the envelope
\* carries; the step that creates a listener writes nothing; and the write
\* of an asynchronous send returns to the caller at once, whatever the
\* listener does, while the write of a synchronous send goes on to wait.
C25_ListenerBeforeEnvelope ==
    [][/\ Len(sent') > Len(sent)
            => /\ Len(sent') = Len(sent) + 1
               /\ Len(sent') \in Handles
               /\ lst' = lst
               /\ caller.h = Len(sent')
               /\ sent'[Len(sent')]
                    = Envelope(lst[Len(sent')].threadId, hist[Len(sent')].content)
               /\ hist[Len(sent')].recvd = << >> => lst[Len(sent')].running
               /\ caller'.pc = IF hist[Len(sent')].sync THEN "wait" ELSE "idle"
       /\ Len(lst') > Len(lst)
            => /\ Len(lst') = Len(lst) + 1
               /\ sent' = sent
               /\ Len(sent) = Len(lst)
               /\ lst'[Len(lst')].running
               /\ lst'[Len(lst')].pc = "loop"
               /\ lst'[Len(lst')].executionOutput = << >>
               /\ caller'.pc = "send"
               /\ caller'.h = Len(lst')]_vars

\* C25 witness: aSyncExecution has returned, its envelope written, and its
\* listener is still Running with nothing read.
C25_Witness ==
    \E h \in Handles :
        /\ ~hist[h].sync
        /\ Len(sent) = h
        /\ caller.pc = "idle"
        /\ ~hist[h].asked
        /\ lst[h].running
        /\ hist[h].recvd = << >>

\* the text '[[1, 2], [3, 4]]'
C26_NestedText ==
    <<"[", "[", "1", ",", " ", "2", "]", ",", " ", "[", "3", ",", " ", "4", "]", "]">>

\* C26: default_parser returns the empty list for '[]' and the nested list
\* [[1, 2], [3, 4]] for '[[1, 2], [3, 4]]', trailing whitespace ignored.
C26_NestedLists ==
    (fn.name = "default_parser" /\ fn.pc = "done") =>
        /\ RStrip(fn.arg) = <<"[", "]">> => fn.result = ListV(<< >>)
        /\ RStrip(fn.arg) = C26_NestedText
                => fn.result = ListV(<<ListV(<<IntV(1), IntV(2)>>),
                                       ListV(<<IntV(3), IntV(4)>>)>>)

\* C27: waitForStop returns only when two new status messages of its axis
\* have come since the call, and never on a message stored before the
\* call.  The messages are numbered in the order of delivery and none was
\* delivered before the call, so the message waitForStop returns on is the
\* second one or a later one.
C27_TwoNewMessages ==
    (stage.method = "waitForStop" /\ stage.pc = "returned")
        => /\ stage.status.id >= 2
           /\ bus.n >= 2

\* C28: every moveAxisRelative command that moveBy sends carries a move
\* time above zero, and the wait that follows has its deadline (the time of
\* the send, plus the timeout given to waitForStop, plus its two seconds)
\* after the time of the send.
C28_MoveByTimes ==
    /\ \A i \in 1..Len(worker) :
            worker[i].cmd = "moveAxisRelative" => worker[i].arg[2] > 0
    /\ (stage.method = "moveBy" /\ stage.pc \in {"wait0", "wait1", "loop1", "loop2"})
            => stage.timeout + GraceUnits > 0

\* the places in a list of assignments where a key is assigned first
C29_Firsts(a) ==
    {i \in 1..Len(a) : \A j \in 1..(i - 1) : a[j].key # a[i].key}

\* the value a key has in the end: that of its last assignment
C29_Value(a, key) ==
    a[CHOOSE i \in 1..Len(a) :
        /\ a[i].key = key
        /\ \A j \in (i + 1)..Len(a) : a[j].key # key].value

\* the setup commands of a CcsSetup built by the assignments a: for each
\* key, in the order in which the keys came in, 'key = value'; then
\* 'import sys'; then the sys.path.append line
C29_Expected(a) ==
    LET firsts == C29_Firsts(a)
        at == CHOOSE f \in [1..Cardinality(firsts) -> firsts] :
                \A i \in DOMAIN f : \A j \in DOMAIN f : i < j => f[i] < f[j]
    IN [i \in 1..Cardinality(firsts) |->
            <<a[at[i]].key, " = ", C29_Value(a, a[at[i]].key)>>]
         \o << <<"import sys">>, <<"sys.path.append(\"", PythonDir, "\")">> >>

\* the commands of the call of syncScriptExecution are the synchronous
\* ones; they come after the commands sent before the call
C29_Place(h) == h - Cardinality({g \in Handles : ~hist[g].sync})

\* each command of the call is a setup command in its place or, last, the
\* text of the script, sent in an envelope of its own; and a command of the
\* call that is followed by another has a listener that has stopped
C29_SetupInOrder ==
    LET setup == C29_Expected(fn.arg) IN
    \A h \in Handles :
        hist[h].sync =>
            /\ C29_Place(h) \in 1..(Len(setup) + 1)
            /\ C29_Place(h) <= Len(setup) => hist[h].content = setup[C29_Place(h)]
            /\ C29_Place(h) = Len(setup) + 1 => hist[h].content \in FileTexts
            /\ h <= Len(sent) => sent[h] = Envelope(lst[h].threadId, hist[h].content)
            /\ h < Len(lst) => ~lst[h].running

\* C29 as stated: the setup commands of the CcsSetup go out one by one in
\* order, each stopped before the next, the script last, and at most one
\* listener is Running at any time during the call.
C29_ScriptExecution ==
    /\ C29_SetupInOrder
    /\ (\E h \in Handles : hist[h].sync)
            => \A h1 \in Handles : \A h2 \in Handles :
                    (lst[h1].running /\ lst[h2].running) => h1 = h2

\* C29 amended: the setup commands of the CcsSetup go out one by one in
\* order, each stopped before the next, the script last, and at most one of
\* the listeners of the call's own commands is Running at any time; the
\* listener of an asynchronous command sent before the call can be Running
\* as well.
C29_ScriptExecutionOwnListeners ==
    /\ C29_SetupInOrder
    /\ \A h1 \in Handles : \A h2 \in Handles :
            (hist[h1].sync /\ hist[h2].sync /\ lst[h1].running /\ lst[h2].running)
                => h1 = h2

\* C29 witness: a CcsSetup of two entries; the four setup commands have
\* stopped in turn, the envelope of the script is written and its listener
\* is Running, and so is the listener of an asynchronous command sent
\* before the call.
C29_Witness ==
    /\ Len(CcsSetup_init(fn.arg)) = 2
    /\ Len(lst) = 6
    /\ Len(sent) = 6
    /\ ~hist[1].sync
    /\ lst[1].running
    /\ \A h \in 2..5 : ~lst[h].running
    /\ hist[6].content \in FileTexts
    /\ lst[6].running

\* the handle of the script command of ccsProducer: the last one
C30_Script == Len(lst)

\* C30: once ccsProducer has got the result of the script it writes the
\* log at once; the log holds all that the listener of the script has
\* captured; after the log is written ccsProducer raises RuntimeError when
\* the listener's java_exceptions is not empty, with a message that holds
\* every line of java_exceptions, in order, one to a line, and it returns
\* when java_exceptions is empty.
C30_LogThenRaise ==
    fn.name = "ccsProducer" =>
        /\ (fn.pc = "call" /\ ScriptDone) => ~StillWaiting(lst[C30_Script])
        /\ fn.pc \in {"logged", "raised", "returned"}
            => /\ ScriptDone
               /\ Replace(fn.result.log, SentinelLine(lst[C30_Script].threadId))
                    = Replace(hist[C30_Script].recvd, SentinelLine(lst[C30_Script].threadId))
        /\ fn.pc = "raised"
            => /\ lst[C30_Script].java_exceptions # << >>
               /\ fn.result.exc = "RuntimeError"
               /\ SubSeq(fn.result.message, 1, 2) = <<"java.lang.Exceptions raised:", NL>>
               /\ Split(SubSeq(fn.result.message, 3, Len(fn.result.message)))
                    = lst[C30_Script].java_exceptions
        /\ fn.pc = "returned"
            => /\ lst[C30_Script].java_exceptions = << >>
               /\ fn.result.exc = "none"

\* C30 witness: ccsProducer has written a log that holds two fault lines
\* and has raised RuntimeError with both lines in its message.
C30_Witness ==
    /\ fn.name = "ccsProducer"
    /\ fn.pc = "raised"
    /\ Len(lst[Len(lst)].java_exceptions) = 2
    /\ lst[Len(lst)].java_exceptions[1] # lst[Len(lst)].java_exceptions[2]
    /\ Contains(fn.result.log, <<"java.lang.", "w", "Exception", NL>>)

====
